---------------------------- MODULE Spec2Model ----------------------------
(***************************************************************************)
(* State-machine model of the workbook mutation tools of excel-mcp-server: *)
(* insert_excel_row, delete_excel_row and insert_cell_text.                *)
(*                                                                         *)
(* The state is the file system (path -> workbook) plus a record of the    *)
(* last tool call (its arguments, the files before it, its result record). *)
(* Each tool call is one atomic action: load, mutate in memory, save,      *)
(* return.  The worksheet is modelled the way the codec keeps it: a sparse *)
(* map from (row, column) to cell, where reading a cell creates it and     *)
(* max_row and max_column are the extent of the cells that exist.          *)
(***************************************************************************)
EXTENDS Integers, Sequences, FiniteSets, TLC

VARIABLES disk, last, probe

vars == <<disk, last, probe>>

(***************************************************************************)
(* Bounds of the model.                                                    *)
(***************************************************************************)
\* most data rows of a worksheet the model starts from
MaxDataRows == 2
\* longest formula text tried on the reference rewriter
MaxFormulaLen == 4
\* largest target row / max_row tried on the reference rewriter
MaxProbeRow == 3

(***************************************************************************)
(* Values.  A value is [k, s, n]: k the Python kind, s the characters of a *)
(* string, n the number (kind "num"/"bool") or, for a string, how many     *)
(* further filler characters follow s (so that very long texts can be      *)
(* written down): len(text) = Len(s) + n.                                  *)
(***************************************************************************)
Null == [k |-> "null", s |-> <<>>, n |-> 0]
Str(s) == [k |-> "str", s |-> s, n |-> 0]
LongStr(s, pad) == [k |-> "str", s |-> s, n |-> pad]
Num(n) == [k |-> "num", s |-> <<>>, n |-> n]
Bool(b) == [k |-> "bool", s |-> <<>>, n |-> IF b THEN 1 ELSE 0]
\* a JSON array: a value that is neither a number nor text
EmptyList == [k |-> "list", s |-> <<>>, n |-> 0]

Whitespace == {" "}
Digits == <<"0", "1", "2", "3", "4", "5", "6", "7", "8", "9">>
DigitSet == {Digits[i] : i \in 1..10}
UpperSet == {"A", "B", "C"}

\* len(text)
TextLen(v) == Len(v.s) + v.n

\* isinstance(value, str)
IsStr(v) == v.k = "str"

\* text.strip(): the characters without leading and trailing whitespace
RECURSIVE LStrip(_)
LStrip(s) == IF s # <<>> /\ Head(s) \in Whitespace THEN LStrip(Tail(s)) ELSE s

RECURSIVE RStrip(_)
RStrip(s) ==
  IF s # <<>> /\ s[Len(s)] \in Whitespace THEN RStrip(SubSeq(s, 1, Len(s) - 1)) ELSE s

Strip(v) == IF v.n > 0 THEN [v EXCEPT !.s = LStrip(v.s)]
            ELSE [v EXCEPT !.s = RStrip(LStrip(v.s))]

\* text.startswith('=')
StartsWithEq(v) == v.s # <<>> /\ Head(v.s) = "="

\* value is None or str(value).strip() == ''
IsBlank(v) == v.k = "null" \/ (v.k = "str" /\ TextLen(Strip(v)) = 0)

(***************************************************************************)
(* Cells and worksheets.                                                   *)
(***************************************************************************)
General == [horizontal |-> "general", vertical |-> "bottom", wrap_text |-> FALSE]
LeftCenter == [horizontal |-> "left", vertical |-> "center", wrap_text |-> FALSE]
RightTop == [horizontal |-> "right", vertical |-> "top", wrap_text |-> TRUE]

DefaultCell ==
  [value |-> Null, alignment |-> General, font |-> "default", fill |-> "default",
   border |-> "default", number_format |-> "General"]

PlainCell(v) == [DefaultCell EXCEPT !.value = v]
StyledCell(v, al, st) ==
  [value |-> v, alignment |-> al, font |-> st, fill |-> st, border |-> st,
   number_format |-> st]

\* the codec writes a cell to the file only if it has a value or a style
HasStyle(c) == [c EXCEPT !.value = Null] # DefaultCell
Persisted(c) == c.value # Null \/ HasStyle(c)

NoCells == [p \in {} |-> DefaultCell]

SetMax(S) == CHOOSE m \in S : \A x \in S : x <= m
SetMin(S) == CHOOSE m \in S : \A x \in S : m <= x
IMax(a, b) == IF a >= b THEN a ELSE b
IMin(a, b) == IF a <= b THEN a ELSE b

\* worksheet.max_row / max_column / min_column: extent of the existing cells
max_row(ws) == IF DOMAIN ws = {} THEN 1 ELSE SetMax({p[1] : p \in DOMAIN ws})
max_column(ws) == IF DOMAIN ws = {} THEN 1 ELSE SetMax({p[2] : p \in DOMAIN ws})
min_column(ws) == IF DOMAIN ws = {} THEN 1 ELSE SetMin({p[2] : p \in DOMAIN ws})

\* the cell at (r, c), a default one if none exists there
CellAt(ws, r, c) == IF <<r, c>> \in DOMAIN ws THEN ws[<<r, c>>] ELSE DefaultCell
ValueAt(ws, r, c) == CellAt(ws, r, c).value

\* worksheet.cell(r, c) / worksheet["A1"]: reading a cell creates it
Touch(ws, coords) ==
  [p \in DOMAIN ws \cup coords |-> IF p \in DOMAIN ws THEN ws[p] ELSE DefaultCell]

\* cell.<attribute> = ... on the (created) cell at (r, c)
PutCell(ws, r, c, cell) ==
  [p \in DOMAIN ws \cup {<<r, c>>} |-> IF p = <<r, c>> THEN cell ELSE ws[p]]

\* worksheet.iter_rows(min_row=lo): creates every cell of rows lo..max_row
Materialize(ws, lo) ==
  Touch(ws, {<<r, c>> : r \in lo..max_row(ws), c \in 1..max_column(ws)})

\* the values of a row over columns 1..max_column (a tuple of iter_rows)
RowValues(ws, r) == [c \in 1..max_column(ws) |-> ValueAt(ws, r, c)]

\* worksheet.insert_rows(idx): every cell of a row >= idx moves down by one
\* (idx = 0 is "no lower limit" in the codec, so every cell moves)
insert_rows(ws, idx) ==
  LET m == Materialize(ws, IMax(idx, 1))
      Src(p) == IF p[1] > idx THEN <<p[1] - 1, p[2]>> ELSE p
      moved == {p \in DOMAIN m : p[1] >= idx}
      kept == {p \in DOMAIN m : p[1] < idx}
      dom == kept \cup {<<p[1] + 1, p[2]>> : p \in moved}
  IN [p \in dom |-> m[Src(p)]]


\* a deletion that empties the row and moves nothing
DeleteRowsLeavingGap(ws, idx) == [p \in {q \in DOMAIN ws : q[1] # idx} |-> ws[p]]

\* worksheet.delete_rows(idx): rows above idx move up by one, the cells of the
\* last row are dropped
delete_rows(ws, idx) ==
  LET top == max_row(ws)
      m == Materialize(ws, idx + 1)
      gutter == IMax(top, idx)..(IMin(idx + 1, top))
      below == {p \in DOMAIN m : p[1] <= idx}
      above == {p \in DOMAIN m : p[1] > idx}
      dom == {p \in below : <<p[1] + 1, p[2]>> \notin above}
             \cup {<<p[1] - 1, p[2]>> : p \in above}
      shifted == [p \in dom |-> IF <<p[1] + 1, p[2]>> \in above
                                THEN m[<<p[1] + 1, p[2]>>] ELSE m[p]]
      cols == min_column(shifted)..max_column(shifted)
      gone == {p \in DOMAIN shifted : p[1] \in gutter /\ p[2] \in cols}
  IN [p \in DOMAIN shifted \ gone |-> shifted[p]]

\* workbook.save(path): only cells with a value or a style reach the file
SavedSheet(ws) == [p \in {q \in DOMAIN ws : Persisted(ws[q])} |-> ws[p]]


(***************************************************************************)
(* Files.  A path holds no file, a file that is not a workbook, or a       *)
(* workbook: its sheet names in order, the index of the active sheet and   *)
(* one worksheet per name.                                                 *)
(***************************************************************************)
NoFile == [exists |-> FALSE]
OtherFile == [exists |-> TRUE, workbook |-> FALSE]
Workbook(names, active, sheets) ==
  [exists |-> TRUE, workbook |-> TRUE, sheetnames |-> names, active |-> active,
   sheets |-> sheets]

Paths == {"book.xlsx", "gone.xlsx", "notes.txt", "legacy.xls", "copy.xlsx"}

\* os.path.splitext(file_path)[1].lower()
Ext(path) ==
  CASE path \in {"book.xlsx", "gone.xlsx", "copy.xlsx"} -> ".xlsx"
    [] path = "legacy.xls" -> ".xls"
    [] OTHER -> ".txt"

\* os.path.exists(file_path)
Exists(d, path) == path \in DOMAIN d /\ d[path].exists

\* openpyxl.load_workbook(path) raises on a file that is not a workbook
Loadable(d, path) == Exists(d, path) /\ d[path].workbook

\* sheet_name: "" stands for None (both are falsy in the code)
NoSheet == ""

\* the target worksheet: the named one, or the active one when no name is given
ResolveSheet(wb, sheet_name) ==
  IF sheet_name # NoSheet /\ \E i \in 1..Len(wb.sheetnames) : wb.sheetnames[i] = sheet_name
  THEN [found |-> TRUE,
        idx |-> CHOOSE i \in 1..Len(wb.sheetnames) : wb.sheetnames[i] = sheet_name]
  ELSE IF sheet_name # NoSheet
  THEN [found |-> FALSE, idx |-> 0]
  ELSE [found |-> TRUE, idx |-> wb.active]

\* workbook.save(path) with worksheet idx replaced by ws
Save(d, path, wb, idx, ws) ==
  [d EXCEPT ![path] =
     [wb EXCEPT !.sheets = [wb.sheets EXCEPT ![idx] = SavedSheet(ws)]]]

(***************************************************************************)
(* Results: {success, error, data}.  error is the kind of message, "none"  *)
(* for None; data is NoData for None.  An outcome is the result together   *)
(* with the file system the call leaves and what the call did on the way.  *)
(***************************************************************************)
NoData == [none |-> TRUE]

\* what a call leaves behind for inspection besides its result: the rewriter
\* calls it made and the worksheet as it stood in memory before the empty-row
\* pass (insert_excel_row only)
NoTrace == [rewrites |-> <<>>, written |-> [p \in {} |-> 0]]

\* a failure whose message is the text of the exception alone, which is empty
\* for an exception raised without a message
FailureWithBareMessage(d, error, data, loads) ==
  [res |-> [success |-> FALSE, error |-> IF error = "unknown" THEN "none" ELSE error,
            data |-> data],
   disk |-> d, loads |-> loads, saves |-> 0, trace |-> NoTrace]

Failure(d, error, data, loads) ==
  [res |-> [success |-> FALSE, error |-> error, data |-> data],
   disk |-> d, loads |-> loads, saves |-> 0, trace |-> NoTrace]

\* the result of a call that raises while the result record is built, after
\* the save: the handler turns the exception into a failure
FailureAfterSave(d, data, trace) ==
  [res |-> [success |-> FALSE, error |-> "unknown", data |-> NoData],
   disk |-> d, loads |-> 1, saves |-> 1, trace |-> trace]

Success(d, data, trace) ==
  [res |-> [success |-> TRUE, error |-> "none", data |-> data],
   disk |-> d, loads |-> 1, saves |-> 1, trace |-> trace]

(***************************************************************************)
(* delete_excel_row                                                        *)
(***************************************************************************)
\* an off-by-one of the header protection: row 1 passes
HeaderProtectedFromOne(row_number) == row_number < 1

\* step 3: row_number < 2 is refused, row 1 being the header row
HeaderProtected(row_number) == row_number < 2

\* the row-number checks against the loaded sheet, in the order of the code
DeleteRangeError(row_number, top) ==
  IF row_number > top THEN "row_out_of_range"
  ELSE IF top <= 1 THEN "no_data_rows"
  ELSE "none"

delete_excel_row(d, file_path, row_number, sheet_name) ==
  IF ~Exists(d, file_path) THEN Failure(d, "file_not_exists", NoData, 0)
  ELSE IF Ext(file_path) \notin {".xlsx", ".xls"}
  THEN Failure(d, "unsupported_format", NoData, 0)
  ELSE IF HeaderProtected(row_number) THEN Failure(d, "row_below_2", NoData, 0)
  ELSE IF ~Loadable(d, file_path) THEN Failure(d, "unknown", NoData, 0)
  ELSE
    LET wb == d[file_path]
        sh == ResolveSheet(wb, sheet_name)
    IN IF ~sh.found THEN Failure(d, "sheet_not_found", NoData, 1)
       ELSE
         LET worksheet == wb.sheets[sh.idx]
             top == max_row(worksheet)
             err == DeleteRangeError(row_number, top)
         IN IF err # "none" THEN Failure(d, err, NoData, 1)
            ELSE Success(Save(d, file_path, wb, sh.idx, delete_rows(worksheet, row_number)),
                         [file_path |-> file_path,
                          sheet_name |-> wb.sheetnames[sh.idx],
                          deleted_row_number |-> row_number,
                          remaining_rows_count |-> top - 1,
                          data_rows_count |-> top - 2],
                         NoTrace)

(***************************************************************************)
(* Text helpers: decimal numerals, str(value), float(value).               *)
(***************************************************************************)
DigitValue(ch) == CHOOSE i \in 0..9 : Digits[i + 1] = ch

AllIn(s, S) == \A i \in 1..Len(s) : s[i] \in S

\* int("0042") = 42
RECURSIVE ParseNat(_)
ParseNat(s) ==
  IF s = <<>> THEN 0 ELSE ParseNat(SubSeq(s, 1, Len(s) - 1)) * 10 + DigitValue(s[Len(s)])

\* str(n) for an integer n
RECURSIVE NatToChars(_)
NatToChars(n) ==
  IF n < 10 THEN <<Digits[n + 1]>> ELSE NatToChars(n \div 10) \o <<Digits[(n % 10) + 1]>>

IntToChars(n) == IF n < 0 THEN <<"-">> \o NatToChars(-n) ELSE NatToChars(n)

\* str(value)
StrOf(v) ==
  CASE v.k = "str" -> v
    [] v.k = "num" -> Str(IntToChars(v.n))
    [] v.k = "bool" -> Str(<<IF v.n = 1 THEN "True" ELSE "False">>)
    [] v.k = "null" -> Str(<<"None">>)
    [] OTHER -> Str(<<"[", "]">>)

\* float(value): the number, "ValueError" (text that is no numeral) or
\* "TypeError" (a value that is neither a number nor text)
ToFloat(v) ==
  CASE v.k \in {"num", "bool"} -> [ok |-> TRUE, n |-> v.n, exc |-> "none"]
    [] v.k = "str" ->
         LET t == Strip(v)
         IN IF t.n = 0 /\ t.s # <<>> /\ AllIn(t.s, DigitSet)
            THEN [ok |-> TRUE, n |-> ParseNat(t.s), exc |-> "none"]
            ELSE [ok |-> FALSE, n |-> 0, exc |-> "ValueError"]
    [] OTHER -> [ok |-> FALSE, n |-> 0, exc |-> "TypeError"]

\* re.match(pattern, text) for a pattern of literal characters: a prefix test
IsPrefix(pat, v) ==
  Len(pat) <= Len(v.s) /\ \A i \in 1..Len(pat) : v.s[i] = pat[i]

LowerSet == {"a", "b", "q", "x", "y"}
LocalSet == UpperSet \cup LowerSet \cup DigitSet \cup {".", "_", "%", "+", "-"}
DomainSet == UpperSet \cup LowerSet \cup DigitSet \cup {".", "-"}

\* re.match(r'^[a-zA-Z0-9._%+-]+@[a-zA-Z0-9.-]+\.[a-zA-Z]{2,}$', text)
IsEmail(v) ==
  v.n = 0 /\
  \E at \in 1..Len(v.s), dot \in 1..Len(v.s) :
    /\ v.s[at] = "@" /\ v.s[dot] = "."
    /\ at > 1 /\ dot > at + 1 /\ Len(v.s) >= dot + 2
    /\ \A i \in 1..(at - 1) : v.s[i] \in LocalSet
    /\ \A i \in (at + 1)..(dot - 1) : v.s[i] \in DomainSet
    /\ \A i \in (dot + 1)..Len(v.s) : v.s[i] \in UpperSet \cup LowerSet

(***************************************************************************)
(* insert_excel_row: parameters, validation, position                      *)
(***************************************************************************)
\* the parameter checks with the file checks first
ValidateFileFirst(d, file_path, batch_size) ==
  IF ~Exists(d, file_path) THEN "file_not_exists"
  ELSE IF Ext(file_path) \notin {".xlsx", ".xls"} THEN "unsupported_format"
  ELSE IF batch_size > 500 THEN "batch_size_over_500"
  ELSE IF batch_size <= 0 THEN "batch_size_not_positive"
  ELSE "none"

_validate_parameters(d, file_path, batch_size) ==
  IF batch_size > 500 THEN "batch_size_over_500"
  ELSE IF batch_size <= 0 THEN "batch_size_not_positive"
  ELSE IF ~Exists(d, file_path) THEN "file_not_exists"
  ELSE IF Ext(file_path) \notin {".xlsx", ".xls"} THEN "unsupported_format"
  ELSE "none"

\* rules.get(name, default) / name in rules
Has(rules, name) == name \in DOMAIN rules
Get(rules, name, default) == IF name \in DOMAIN rules THEN rules[name] ELSE default

\* the errors one rule produces on one value (lines 63-99), in order;
\* <<"TypeError">> marks float() raising something other than ValueError
FieldErrors(col_name, rules, value) ==
  LET text == StrOf(value)
      data_type == Get(rules, "type", "string")
      num == ToFloat(value)
      E(kind) == <<[col |-> col_name, kind |-> kind]>>
      number_errors ==
        IF data_type # "number" THEN <<>>
        ELSE IF ~num.ok THEN E("not_a_number")
        ELSE (IF Has(rules, "min_value") /\ num.n < rules.min_value
              THEN E("below_min_value") ELSE <<>>)
             \o (IF Has(rules, "max_value") /\ num.n > rules.max_value
                 THEN E("above_max_value") ELSE <<>>)
      email_errors ==
        IF data_type = "email" /\ ~IsEmail(text) THEN E("not_an_email") ELSE <<>>
      pattern_errors ==
        IF Has(rules, "pattern") /\ ~IsPrefix(rules.pattern, text)
        THEN E("pattern_mismatch") ELSE <<>>
      length_errors ==
        IF data_type # "string" THEN <<>>
        ELSE (IF Has(rules, "min_length") /\ TextLen(text) < rules.min_length
              THEN E("too_short") ELSE <<>>)
             \o (IF Has(rules, "max_length") /\ TextLen(text) > rules.max_length
                 THEN E("too_long") ELSE <<>>)
  IN IF Get(rules, "required", FALSE) /\ IsBlank(value) THEN E("required")
     ELSE IF IsBlank(value) THEN <<>>
     ELSE number_errors \o email_errors \o pattern_errors \o length_errors

\* float() raises TypeError, which _validate_data does not catch
FieldRaises(rules, value) ==
  /\ ~IsBlank(value)
  /\ Get(rules, "type", "string") = "number"
  /\ ToFloat(value).exc = "TypeError"


\* the errors of one row when a column the row lacks is validated as None
RECURSIVE RowErrorsReadingAbsentAsNone(_, _)
RowErrorsReadingAbsentAsNone(row, validation_rules) ==
  IF validation_rules = <<>> THEN <<>>
  ELSE LET col_name == Head(validation_rules)[1]
           rules == Head(validation_rules)[2]
       IN FieldErrors(col_name, rules,
                      IF col_name \in DOMAIN row THEN row[col_name] ELSE Null)
          \o RowErrorsReadingAbsentAsNone(row, Tail(validation_rules))

\* the errors of one row: every rule whose column is in the row, in rule order
RECURSIVE RowErrors(_, _)
RowErrors(row, validation_rules) ==
  IF validation_rules = <<>> THEN <<>>
  ELSE LET col_name == Head(validation_rules)[1]
           rules == Head(validation_rules)[2]
       IN (IF col_name \in DOMAIN row THEN FieldErrors(col_name, rules, row[col_name])
           ELSE <<>>)
          \o RowErrors(row, Tail(validation_rules))

RowRaises(row, validation_rules) ==
  \E i \in 1..Len(validation_rules) :
    /\ validation_rules[i][1] \in DOMAIN row
    /\ ~(Get(validation_rules[i][2], "required", FALSE)
         /\ IsBlank(row[validation_rules[i][1]]))
    /\ FieldRaises(validation_rules[i][2], row[validation_rules[i][1]])

RECURSIVE ValidateFrom(_, _, _, _)
ValidateFrom(rows_to_insert, validation_rules, row_idx, acc) ==
  IF row_idx > Len(rows_to_insert) THEN acc
  ELSE LET row == rows_to_insert[row_idx]
           row_errors == RowErrors(row, validation_rules)
           tagged == [i \in 1..Len(row_errors) |->
                        [row |-> row_idx, col |-> row_errors[i].col,
                         kind |-> row_errors[i].kind]]
       IN IF RowRaises(row, validation_rules) THEN [acc EXCEPT !.raised = TRUE]
          ELSE IF row_errors # <<>>
          THEN ValidateFrom(rows_to_insert, validation_rules, row_idx + 1,
                 [acc EXCEPT !.report.failed = @ + 1, !.report.errors = @ \o tagged])
          ELSE ValidateFrom(rows_to_insert, validation_rules, row_idx + 1,
                 [acc EXCEPT !.report.passed = @ + 1,
                             !.rows = Append(@, row), !.index = Append(@, row_idx)])

\* validation that reports the errors but keeps every row
ValidateKeepingAll(rows_to_insert, validation_rules) ==
  LET empty == [rows |-> <<>>, index |-> <<>>, raised |-> FALSE,
                report |-> [passed |-> 0, failed |-> 0, errors |-> <<>>]]
  IN [ValidateFrom(rows_to_insert, validation_rules, 1, empty)
        EXCEPT !.rows = rows_to_insert,
               !.index = [i \in 1..Len(rows_to_insert) |-> i]]


\* validation whose error messages carry row_idx, the 0-based index, not
\* row_idx + 1
ValidateNumberingFromZero(rows_to_insert, validation_rules) ==
  LET empty == [rows |-> <<>>, index |-> <<>>, raised |-> FALSE,
                report |-> [passed |-> 0, failed |-> 0, errors |-> <<>>]]
      out == ValidateFrom(rows_to_insert, validation_rules, 1, empty)
  IN [out EXCEPT !.report.errors =
        [j \in 1..Len(out.report.errors) |->
           [out.report.errors[j] EXCEPT !.row = @ - 1]]]

\* the validated rows and the validation report; index (not in the code) keeps,
\* for each validated row, its place in the input batch
_validate_data(rows_to_insert, validation_rules) ==
  LET empty == [rows |-> <<>>, index |-> <<>>, raised |-> FALSE,
                report |-> [passed |-> 0, failed |-> 0, errors |-> <<>>]]
  IN IF validation_rules = <<>>
     THEN [empty EXCEPT !.rows = rows_to_insert,
                        !.index = [i \in 1..Len(rows_to_insert) |-> i],
                        !.report.passed = Len(rows_to_insert)]
     ELSE ValidateFrom(rows_to_insert, validation_rules, 1, empty)

\* insert positions: "end", "beginning", "after_row_" + tail, or another
\* literal; tail is split at "_" and each segment is an integer numeral or not
PosEnd == [kind |-> "end", segs |-> <<>>]
PosBeginning == [kind |-> "beginning", segs |-> <<>>]
PosAfter(n) == [kind |-> "after_row", segs |-> <<[int |-> TRUE, n |-> n]>>]
PosAfterText == [kind |-> "after_row", segs |-> <<[int |-> FALSE, n |-> 0]>>]
PosOther == [kind |-> "other", segs |-> <<>>]
\* "after_row_x_<n>": the text after "after_row_" is no integer, its last
\* "_"-separated part is
PosAfterMixed(n) ==
  [kind |-> "after_row", segs |-> <<[int |-> FALSE, n |-> 0], [int |-> TRUE, n |-> n]>>]

_determine_insert_position(insert_position, top) ==
  CASE insert_position.kind = "end" -> [row |-> top + 1, err |-> "none"]
    [] insert_position.kind = "beginning" -> [row |-> 2, err |-> "none"]
    [] insert_position.kind = "after_row" ->
         LET seg == insert_position.segs[Len(insert_position.segs)]
         IN IF seg.int THEN [row |-> seg.n + 1, err |-> "none"]
            ELSE [row |-> 0, err |-> "invalid_position_format"]
    [] OTHER -> [row |-> 0, err |-> "unsupported_position"]

(***************************************************************************)
(* insert_excel_row: formula references, formatting, writing, empty rows   *)
(***************************************************************************)
\* the index after the longest run of characters of S that starts at i
RECURSIVE RunEnd(_, _, _)
RunEnd(s, i, S) == IF i <= Len(s) /\ s[i] \in S THEN RunEnd(s, i + 1, S) ELSE i

\* the comparison off by one: the row equal to original_max_row is shifted too
ShiftFromMaxRow(col, digits, current_row, original_max_row) ==
  LET row == ParseNat(digits)
  IN IF row >= original_max_row
     THEN col \o IntToChars(row + (current_row - original_max_row - 1))
     ELSE col \o digits

\* replace_cell_ref: one matched reference, column letters col and row digits
replace_cell_ref(col, digits, current_row, original_max_row) ==
  LET row == ParseNat(digits)
  IN IF row > original_max_row
     THEN col \o IntToChars(row + (current_row - original_max_row - 1))
     ELSE col \o digits

\* re.sub(r'([A-Z]+)(\d+)', replace_cell_ref, formula) from index i on: matches
\* are found left to right, each the longest run of letters followed by the
\* longest run of digits
RECURSIVE SubFrom(_, _, _, _)
SubFrom(s, i, current_row, original_max_row) ==
  IF i > Len(s) THEN <<>>
  ELSE IF s[i] \in UpperSet
  THEN LET j == RunEnd(s, i, UpperSet)
           k == RunEnd(s, j, DigitSet)
       IN IF k > j
          THEN replace_cell_ref(SubSeq(s, i, j - 1), SubSeq(s, j, k - 1),
                                current_row, original_max_row)
               \o SubFrom(s, k, current_row, original_max_row)
          ELSE SubSeq(s, i, j - 1) \o SubFrom(s, j, current_row, original_max_row)
  ELSE <<s[i]>> \o SubFrom(s, i + 1, current_row, original_max_row)


\* a rewriter that leaves the formula as it was given
FormulaAsGiven(formula, current_row, original_max_row) == formula

_adjust_formula_references(formula, current_row, original_max_row) ==
  SubFrom(formula, 1, current_row, original_max_row)

\* the max_row _insert_data_with_formatting hands to the rewriter (line 225):
\* worksheet.max_row, read when the cell is written
RewriteThreshold(ws) == max_row(ws)

NoRef == [none |-> TRUE]

\* formatting that, when preserving, copies the alignment of the reference
\* cell along with its font, fill and border
AlignLikeReference(cell, preserve_formatting, reference_cell) ==
  LET aligned == [cell EXCEPT !.alignment = LeftCenter]
  IN IF preserve_formatting /\ reference_cell # NoRef
     THEN [aligned EXCEPT !.alignment = reference_cell.alignment,
                          !.font = reference_cell.font,
                          !.fill = reference_cell.fill,
                          !.border = reference_cell.border]
     ELSE aligned

_apply_cell_alignment(cell, preserve_formatting, reference_cell) ==
  LET aligned == [cell EXCEPT !.alignment = LeftCenter]
  IN IF preserve_formatting /\ reference_cell # NoRef
     THEN [aligned EXCEPT !.font = reference_cell.font,
                          !.fill = reference_cell.fill,
                          !.border = reference_cell.border]
     ELSE aligned

\* cell.value = value raises for a value that is no scalar
Writable(v) == v.k # "list"

\* one cell of one inserted row (lines 214-237); acc = [ws, report, rewrites,
\* raised]; reference_row = 0 stands for None
WriteCell(acc, row_data_dict, header, col, current_row, preserve_formatting, calculate_formulas, reference_row) ==
  IF acc.raised THEN acc
  ELSE IF current_row < 1 THEN [acc EXCEPT !.raised = TRUE]
  ELSE
    LET ws1 == Touch(acc.ws, {<<current_row, col>>})
        present == header \in DOMAIN row_data_dict
        value == IF present THEN row_data_dict[header] ELSE Null
        is_formula == present /\ calculate_formulas /\ IsStr(value) /\ StartsWithEq(value)
        threshold == RewriteThreshold(ws1)
        adjusted == IF is_formula
                    THEN [value EXCEPT !.s = _adjust_formula_references(value.s, current_row, threshold)]
                    ELSE value
        ws2 == PutCell(ws1, current_row, col, [ws1[<<current_row, col>>] EXCEPT !.value = adjusted])
        ws3 == IF reference_row # 0 THEN Touch(ws2, {<<reference_row, col>>}) ELSE ws2
        reference_cell == IF reference_row # 0 THEN ws3[<<reference_row, col>>] ELSE NoRef
        ws4 == PutCell(ws3, current_row, col,
                 _apply_cell_alignment(ws3[<<current_row, col>>], preserve_formatting, reference_cell))
    IN IF ~Writable(value) THEN [acc EXCEPT !.raised = TRUE]
       ELSE [ws |-> ws4,
             raised |-> FALSE,
             report |-> IF is_formula
                        THEN [processed |-> acc.report.processed + 1,
                              adjusted |-> acc.report.adjusted
                                           + (IF adjusted # value THEN 1 ELSE 0)]
                        ELSE acc.report,
             rewrites |-> IF is_formula
                          THEN Append(acc.rewrites,
                                 [row |-> current_row, col |-> col, threshold |-> threshold,
                                  formula |-> value.s, adjusted |-> adjusted.s])
                          ELSE acc.rewrites]

RECURSIVE WriteRow(_, _, _, _, _, _, _, _)
WriteRow(acc, row_data_dict, headers, col, current_row, preserve_formatting, calculate_formulas, reference_row) ==
  IF col > Len(headers) THEN acc
  ELSE WriteRow(WriteCell(acc, row_data_dict, headers[col], col, current_row,
                          preserve_formatting, calculate_formulas, reference_row),
                row_data_dict, headers, col + 1, current_row, preserve_formatting,
                calculate_formulas, reference_row)

RECURSIVE WriteRows(_, _, _, _, _, _, _, _)
WriteRows(acc, rows_to_insert, headers, row_idx, insert_row, preserve_formatting, calculate_formulas, reference_row) ==
  IF row_idx > Len(rows_to_insert) THEN acc
  ELSE WriteRows(WriteRow(acc, rows_to_insert[row_idx], headers, 1,
                          insert_row + row_idx - 1, preserve_formatting,
                          calculate_formulas, reference_row),
                 rows_to_insert, headers, row_idx + 1, insert_row, preserve_formatting,
                 calculate_formulas, reference_row)

_insert_data_with_formatting(worksheet, rows_to_insert, headers, insert_row, preserve_formatting, calculate_formulas, reference_row) ==
  WriteRows([ws |-> worksheet, raised |-> FALSE,
             report |-> [processed |-> 0, adjusted |-> 0], rewrites |-> <<>>],
            rows_to_insert, headers, 1, insert_row, preserve_formatting,
            calculate_formulas, reference_row)

\* a data row every cell of which, over columns 1..max_column, is blank
\* the test without the trim: a row is empty when all its cells are None
RowIsNull(ws, r) == \A c \in 1..max_column(ws) : ValueAt(ws, r, c) = Null

RowIsEmpty(ws, r) == \A c \in 1..max_column(ws) : IsBlank(ValueAt(ws, r, c))

\* the rows 2..max_row that are empty, ascending
RECURSIVE EmptyRowsFrom(_, _)
EmptyRowsFrom(ws, r) ==
  IF r > max_row(ws) THEN <<>>
  ELSE (IF RowIsEmpty(ws, r) THEN <<r>> ELSE <<>>) \o EmptyRowsFrom(ws, r + 1)


\* a scan that starts at row 3
DetectFromRowThree(worksheet) == EmptyRowsFrom(worksheet, 3)

_detect_empty_rows(worksheet) == EmptyRowsFrom(worksheet, 2)

\* the scan reads its cells with worksheet.cell(), which creates them: a row
\* is read up to its first cell that is not blank
Scanned(ws) ==
  Touch(ws, {p \in (2..max_row(ws)) \X (1..max_column(ws)) :
               \A c \in 1..(p[2] - 1) : IsBlank(ValueAt(ws, p[1], c))})

\* the deletion the code's comment warns against: the first row first, so that
\* the later row numbers no longer name the rows that were detected
RECURSIVE RemoveAscending(_, _)
RemoveAscending(worksheet, empty_rows) ==
  IF empty_rows = <<>> THEN [ws |-> worksheet, removed |-> 0]
  ELSE LET rest == RemoveAscending(delete_rows(worksheet, Head(empty_rows)), Tail(empty_rows))
       IN [ws |-> rest.ws, removed |-> rest.removed + 1]

\* delete the rows of empty_rows (ascending), the last one first
RECURSIVE _remove_empty_rows(_, _)
_remove_empty_rows(worksheet, empty_rows) ==
  IF empty_rows = <<>> THEN [ws |-> worksheet, removed |-> 0]
  ELSE LET rest == _remove_empty_rows(delete_rows(worksheet, empty_rows[Len(empty_rows)]),
                                      SubSeq(empty_rows, 1, Len(empty_rows) - 1))
       IN [ws |-> rest.ws, removed |-> rest.removed + 1]

\* a gap of one row, however many rows are to be written
OpenGapOfOneRow(ws, insert_row, k) ==
  IF k = 0 THEN ws ELSE insert_rows(ws, insert_row)

\* worksheet.insert_rows(insert_row + i) for i in range(k)
RECURSIVE OpenGap(_, _, _)
OpenGap(ws, insert_row, k) ==
  IF k = 0 THEN ws ELSE insert_rows(OpenGap(ws, insert_row, k - 1), insert_row + k - 1)

\* headers: str(cell) of each value of row 1, Column_<i> for an empty one
Headers(ws) ==
  [i \in 1..max_column(ws) |->
     IF ValueAt(ws, 1, i) = Null THEN <<"Column_">> \o IntToChars(i)
     ELSE StrOf(ValueAt(ws, 1, i)).s]

\* max(2, min(max_row, insert_row - 1)) if preserve_formatting else None (0)
ReferenceRow(top, insert_row, preserve_formatting) ==
  IF preserve_formatting THEN IMax(2, IMin(top, insert_row - 1)) ELSE 0

(***************************************************************************)
(* insert_excel_row.  a = [file_path, row_data, sheet_name,                *)
(* insert_position, validation_rules, preserve_formatting,                 *)
(* calculate_formulas, batch_size, save_as]; row_data is the list of row   *)
(* mappings (a single mapping is the list of that mapping), save_as = ""   *)
(* stands for None.                                                        *)
(* A cell address with a row below 1 is rejected by the codec (openpyxl    *)
(* 3.1: ValueError), which the tool reports as its "unknown error".        *)
(***************************************************************************)
InsertData(a, output_file, target_sheet, validated, insert_row, written, empty_rows, removed, final_ws) ==
  [file_path |-> a.file_path,
   output_file |-> output_file,
   sheet_name |-> target_sheet,
   inserted_rows |-> Len(validated.rows),
   insert_position |-> a.insert_position,
   actual_insert_row |-> insert_row,
   validation_report |-> validated.report,
   formula_report |-> written.report,
   formatting_preserved |-> a.preserve_formatting,
   empty_rows_removed |-> removed,
   empty_rows_detected |-> Len(empty_rows),
   final_row_count |-> max_row(final_ws) - 1,
   left_aligned |-> TRUE]

\* steps 6-13, on the loaded worksheet with its cells of rows 1..max_row read
InsertInto(d, a, wb, idx, worksheet, validated) ==
  LET top == max_row(worksheet)
      pos == _determine_insert_position(a.insert_position, top)
      insert_row == pos.row
      k == Len(validated.rows)
      gapped == IF a.insert_position.kind # "end"
                THEN OpenGap(worksheet, insert_row, k) ELSE worksheet
      reference_row == ReferenceRow(top, insert_row, a.preserve_formatting)
      written == _insert_data_with_formatting(gapped, validated.rows, Headers(worksheet),
                   insert_row, a.preserve_formatting, a.calculate_formulas, reference_row)
      empty_rows == _detect_empty_rows(written.ws)
      cleaned == _remove_empty_rows(Scanned(written.ws), empty_rows)
      output_file == IF a.save_as # "" THEN a.save_as ELSE a.file_path
  IN IF pos.err # "none" THEN Failure(d, pos.err, NoData, 1)
     ELSE IF insert_row < 1 \/ written.raised THEN Failure(d, "unknown", NoData, 1)
     ELSE Success(Save(d, output_file, wb, idx, cleaned.ws),
                  InsertData(a, output_file, wb.sheetnames[idx], validated, insert_row,
                             written, empty_rows, cleaned.removed, cleaned.ws),
                  [rewrites |-> written.rewrites, written |-> written.ws,
                   reference_row |-> reference_row])

\* the check left out: an empty set of validated rows goes on to be inserted
NoRowsIsFine(validated_rows) == FALSE

\* if not validated_rows
NoValidRows(validated_rows) == validated_rows = <<>>

insert_excel_row(d, a) ==
  LET param_error == _validate_parameters(d, a.file_path, a.batch_size)
  IN IF param_error # "none" THEN Failure(d, param_error, NoData, 0)
     ELSE IF Len(a.row_data) > a.batch_size THEN Failure(d, "batch_limit_exceeded", NoData, 0)
     ELSE IF ~Loadable(d, a.file_path) THEN Failure(d, "unknown", NoData, 0)
     ELSE
       LET wb == d[a.file_path]
           sh == ResolveSheet(wb, a.sheet_name)
       IN IF ~sh.found THEN Failure(d, "sheet_not_found", NoData, 1)
          ELSE IF DOMAIN wb.sheets[sh.idx] = {} THEN Failure(d, "empty_sheet", NoData, 1)
          ELSE
            LET worksheet == Materialize(wb.sheets[sh.idx], 1)
                validated == _validate_data(a.row_data, a.validation_rules)
            IN IF validated.raised THEN Failure(d, "unknown", NoData, 1)
               ELSE IF NoValidRows(validated.rows)
               THEN Failure(d, "no_valid_rows", validated.report, 1)
               ELSE InsertInto(d, a, wb, sh.idx, worksheet, validated)

(***************************************************************************)
(* insert_cell_text.  a = [file_path, row_number, column_number,           *)
(* text_content, sheet_name, preserve_formatting].                         *)
(***************************************************************************)
MaxExcelRow == 1048576
MaxExcelColumn == 16384
MaxTextLength == 32767

\* the parameter checks without the formula check
ValidateWithoutFormulaCheck(d, file_path, row_number, column_number, text_content) ==
  IF ~Exists(d, file_path) THEN "file_not_exists"
  ELSE IF Ext(file_path) \notin {".xlsx", ".xls"} THEN "unsupported_format"
  ELSE IF row_number < 1 THEN "row_below_1"
  ELSE IF column_number < 1 THEN "column_below_1"
  ELSE IF row_number > MaxExcelRow THEN "row_over_limit"
  ELSE IF column_number > MaxExcelColumn THEN "column_over_limit"
  ELSE IF ~IsStr(text_content) THEN "not_text"
  ELSE IF TextLen(text_content) > MaxTextLength THEN "text_too_long"
  ELSE "none"

_validate_parameters_cell(d, file_path, row_number, column_number, text_content) ==
  IF ~Exists(d, file_path) THEN "file_not_exists"
  ELSE IF Ext(file_path) \notin {".xlsx", ".xls"} THEN "unsupported_format"
  ELSE IF row_number < 1 THEN "row_below_1"
  ELSE IF column_number < 1 THEN "column_below_1"
  ELSE IF row_number > MaxExcelRow THEN "row_over_limit"
  ELSE IF column_number > MaxExcelColumn THEN "column_over_limit"
  ELSE IF ~IsStr(text_content) THEN "not_text"
  ELSE IF StartsWithEq(Strip(text_content)) THEN "formula_not_allowed"
  ELSE IF TextLen(text_content) > MaxTextLength THEN "text_too_long"
  ELSE "none"

\* formatting that, when preserving, takes the alignment of the original cell
\* along with its font, fill, border and number format
FormatKeepingAlignment(cell, preserve_formatting, original_cell) ==
  LET aligned == [cell EXCEPT !.alignment = LeftCenter]
  IN IF preserve_formatting /\ original_cell # NoRef
     THEN [aligned EXCEPT !.alignment = original_cell.alignment,
                          !.font = original_cell.font,
                          !.fill = original_cell.fill,
                          !.border = original_cell.border,
                          !.number_format = original_cell.number_format]
     ELSE aligned


\* formatting that, when not preserving, resets font, fill, border and number
\* format to the defaults
FormatResettingStyle(cell, preserve_formatting, original_cell) ==
  IF preserve_formatting /\ original_cell # NoRef
  THEN [cell EXCEPT !.alignment = LeftCenter,
                    !.font = original_cell.font,
                    !.fill = original_cell.fill,
                    !.border = original_cell.border,
                    !.number_format = original_cell.number_format]
  ELSE [DefaultCell EXCEPT !.value = cell.value, !.alignment = LeftCenter]

_apply_cell_formatting(cell, preserve_formatting, original_cell) ==
  LET aligned == [cell EXCEPT !.alignment = LeftCenter]
  IN IF preserve_formatting /\ original_cell # NoRef
     THEN [aligned EXCEPT !.font = original_cell.font,
                          !.fill = original_cell.fill,
                          !.border = original_cell.border,
                          !.number_format = original_cell.number_format]
     ELSE aligned

Letters == <<"A", "B", "C", "D", "E", "F", "G", "H", "I", "J", "K", "L", "M",
             "N", "O", "P", "Q", "R", "S", "T", "U", "V", "W", "X", "Y", "Z">>

\* openpyxl.utils.get_column_letter
RECURSIVE get_column_letter(_)
get_column_letter(n) ==
  IF n <= 26 THEN <<Letters[n]>>
  ELSE get_column_letter((n - 1) \div 26) \o <<Letters[((n - 1) % 26) + 1]>>

insert_cell_text(d, a) ==
  LET param_error == _validate_parameters_cell(d, a.file_path, a.row_number,
                                               a.column_number, a.text_content)
  IN IF param_error # "none" THEN Failure(d, param_error, NoData, 0)
     ELSE IF ~Loadable(d, a.file_path) THEN Failure(d, "unknown", NoData, 0)
     ELSE
       LET wb == d[a.file_path]
           sh == ResolveSheet(wb, a.sheet_name)
       IN IF ~sh.found THEN Failure(d, "sheet_not_found", NoData, 1)
          ELSE
            LET ws1 == Touch(wb.sheets[sh.idx], {<<a.row_number, a.column_number>>})
                target_cell == ws1[<<a.row_number, a.column_number>>]
                original_value == target_cell.value
                valued == [target_cell EXCEPT !.value = a.text_content]
                \* original_cell_copy is the target cell itself, not a copy
                original_cell_copy == IF a.preserve_formatting THEN valued ELSE NoRef
                ws2 == PutCell(ws1, a.row_number, a.column_number,
                         _apply_cell_formatting(valued, a.preserve_formatting,
                                                original_cell_copy))
            IN Success(Save(d, a.file_path, wb, sh.idx, ws2),
                       [file_path |-> a.file_path,
                        sheet_name |-> wb.sheetnames[sh.idx],
                        cell_position |-> get_column_letter(a.column_number)
                                          \o IntToChars(a.row_number),
                        row_number |-> a.row_number,
                        column_number |-> a.column_number,
                        text_content |-> a.text_content,
                        text_length |-> TextLen(a.text_content),
                        left_aligned |-> TRUE,
                        formatting_preserved |-> a.preserve_formatting,
                        original_value |-> original_value,
                        cell_existed |-> original_value # Null],
                       NoTrace)

(***************************************************************************)
(* read_excel_file: pandas.read_excel over the openpyxl reader.  The       *)
(* reader opens the file data_only: a formula cell yields its cached       *)
(* result, and a file saved by openpyxl holds none.  Every file read here  *)
(* was saved by insert_excel_row.                                          *)
(***************************************************************************)
\* end_row: None or an integer
NoEndRow == NoData
EndRow(n) == [n |-> n]
MaxReadRows == 100

\* openpyxl stores a text of more than one character that starts with '=' as
\* a formula
IsFormulaText(v) == IsStr(v) /\ TextLen(v) > 1 /\ StartsWithEq(v)

\* the value the data_only reader yields for a stored value; the empty text
\* is an empty cell, which pandas reads as NaN and the tool returns as None
DataOnly(v) == IF IsFormulaText(v) \/ v = Str(<<>>) THEN Null ELSE v

\* the rows of a sheet as the reader hands them to the parser: all rows up to
\* the last one that holds a value
SheetData(ws) ==
  IF DOMAIN ws = {} THEN <<>>
  ELSE LET width == max_column(ws)
           rows == [r \in 1..max_row(ws) |-> [c \in 1..width |-> DataOnly(ValueAt(ws, r, c))]]
           filled == {r \in 1..max_row(ws) : \E c \in 1..width : rows[r][c] # Null}
       IN IF filled = {} THEN <<>> ELSE SubSeq(rows, 1, SetMax(filled))

\* the name pandas gives a column whose header cell is empty
Unnamed(i) == [k |-> "unnamed", s |-> <<>>, n |-> i]

\* a read that skips one row more than asked: the header row is skipped too
ReadFrameSkippingHeader(ws, start_row, nrows) ==
  LET data == SheetData(ws)
      rest == SubSeq(data, start_row + 2, Len(data))
  IN IF rest = <<>> THEN [columns |-> <<>>, records |-> <<>>]
     ELSE [columns |-> [c \in 1..Len(rest[1]) |->
                          IF rest[1][c] = Null THEN Unnamed(c - 1) ELSE rest[1][c]],
           records |-> SubSeq(rest, 2, IMin(Len(rest), 1 + nrows))]

\* pd.read_excel(..., skiprows=start_row, nrows=rows_to_read): the first row
\* after the skipped ones names the columns, the next nrows rows are the records
ReadFrame(ws, start_row, nrows) ==
  LET data == SheetData(ws)
      rest == SubSeq(data, start_row + 1, Len(data))
  IN IF rest = <<>> THEN [columns |-> <<>>, records |-> <<>>]
     ELSE [columns |-> [c \in 1..Len(rest[1]) |->
                          IF rest[1][c] = Null THEN Unnamed(c - 1) ELSE rest[1][c]],
           records |-> SubSeq(rest, 2, IMin(Len(rest), 1 + nrows))]

\* the sheet read when no name is given: index 0 of the workbook
FirstSheet == 1

ReadFailure(d, error) ==
  [res |-> [success |-> FALSE, error |-> error, data |-> NoData],
   disk |-> d, loads |-> 0, saves |-> 0, trace |-> NoTrace]

read_excel_file(d, file_path, sheet_name, start_row, end_row) ==
  LET last_row == IF end_row = NoEndRow THEN start_row + MaxReadRows ELSE end_row.n
      rows_to_read == last_row - start_row
  IN IF start_row < 0 THEN ReadFailure(d, "start_row_negative")
     ELSE IF end_row # NoEndRow /\ end_row.n <= start_row
     THEN ReadFailure(d, "end_row_not_after_start_row")
     ELSE IF rows_to_read > MaxReadRows THEN ReadFailure(d, "too_many_rows")
     ELSE IF ~Exists(d, file_path) THEN ReadFailure(d, "file_not_exists")
     ELSE IF Ext(file_path) \notin {".xlsx", ".xls"} THEN ReadFailure(d, "unsupported_format")
     ELSE IF ~Loadable(d, file_path) THEN ReadFailure(d, "unknown")
     ELSE LET wb == d[file_path]
              named == ResolveSheet(wb, sheet_name)
              idx == IF sheet_name # NoSheet THEN named.idx ELSE FirstSheet
              df == ReadFrame(wb.sheets[idx], start_row, rows_to_read)
          IN IF sheet_name # NoSheet /\ ~named.found THEN ReadFailure(d, "sheet_read_error")
             ELSE [res |-> [success |-> TRUE, error |-> "none",
                            data |-> [file_path |-> file_path,
                                      current_sheet |-> wb.sheetnames[idx],
                                      available_sheets |-> wb.sheetnames,
                                      start_row |-> start_row, end_row |-> last_row,
                                      rows_read |-> Len(df.records),
                                      total_columns |-> Len(df.columns),
                                      columns |-> df.columns,
                                      records |-> df.records,
                                      max_rows_limit |-> MaxReadRows,
                                      truncated |-> Len(df.records) = rows_to_read]],
                   disk |-> d, loads |-> 1, saves |-> 0, trace |-> NoTrace]

(***************************************************************************)
(* The workbooks the model starts from and the calls it makes.             *)
(***************************************************************************)
KName == <<"Name">>
KAge == <<"Age">>
KZip == <<"Zip">>

HeaderRow == <<PlainCell(Str(KName)), PlainCell(Str(KAge))>>
\* a data row as typed in, a styled row whose cells are blank, a styled row
\* with a formula
DataRow == <<PlainCell(Str(<<"a">>)), PlainCell(Num(30))>>
BlankRow == <<StyledCell(Null, RightTop, "bold"), StyledCell(Str(<<" ">>), RightTop, "bold")>>
BoldRow == <<StyledCell(Str(<<"=", "B", "2">>), RightTop, "bold"), StyledCell(Num(5), RightTop, "bold")>>
InitialRows == {DataRow, BlankRow, BoldRow}

\* the file of a worksheet with these rows of cells
SheetOf(rows) ==
  SavedSheet([p \in {<<r, c>> : r \in 1..Len(rows), c \in 1..2} |-> rows[p[1]][p[2]]])

RECURSIVE SeqsUpTo(_, _)
SeqsUpTo(S, n) ==
  IF n = 0 THEN {<<>>}
  ELSE LET shorter == SeqsUpTo(S, n - 1)
       IN shorter \cup {Append(q, x) : q \in shorter, x \in S}

\* a header and up to MaxDataRows data rows, or a worksheet without any cell
InitialSheets ==
  {SheetOf(<<HeaderRow>> \o rows) : rows \in SeqsUpTo(InitialRows, MaxDataRows)}
  \cup {NoCells}

DiskOf(wb) ==
  [p \in Paths |->
     CASE p = "book.xlsx" -> wb
       [] p \in {"notes.txt", "legacy.xls"} -> OtherFile
       [] OTHER -> NoFile]

DiskWith(ws) == DiskOf(Workbook(<<"Data">>, 1, <<ws>>))

\* workbooks of two sheets, the first or the second of them the active one
TwoSheetBooks ==
  {Workbook(<<"Data", "Log">>, active,
            <<SheetOf(<<HeaderRow, DataRow>>), SheetOf(<<HeaderRow, BoldRow>>)>>) :
     active \in {1, 2}}

InitialDisks ==
  {DiskWith(ws) : ws \in InitialSheets} \cup {DiskOf(wb) : wb \in TwoSheetBooks}

\* row mappings
RowGood == (KName :> Str(<<"x">>)) @@ (KAge :> Num(7))
RowBlank == (KName :> Str(<<" ">>)) @@ (KZip :> Num(7))
RowBadAge == (KAge :> Str(<<"q">>))
RowFormula == (KName :> Str(<<"=", "A", "1", "+", "B", "9">>))
RowBoolAge == (KName :> Str(<<"x">>)) @@ (KAge :> Bool(TRUE))
RowListAge == (KName :> Str(<<"x">>)) @@ (KAge :> EmptyList)

Batches ==
  {<<RowGood>>, <<RowBlank>>, <<RowBadAge>>, <<RowFormula>>,
   <<RowGood, RowFormula>>, <<RowBadAge, RowGood>>, <<RowFormula, RowBlank>>,
   <<RowBlank, RowGood>>, <<>>}

\* validation rules: an ordered mapping column -> rule
RulesNumber == <<<<KAge, [type |-> "number", min_value |-> 1]>>>>
RulesRequired == <<<<KName, [required |-> TRUE]>>, <<KAge, [type |-> "number"]>>>>
RuleSets == {RulesNumber, RulesRequired}
\* a required column with a type, a bound and a pattern
RulesStrict ==
  <<<<KName, [required |-> TRUE, type |-> "number", min_value |-> 1, pattern |-> <<"x">>]>>>>

Positions ==
  {PosEnd, PosBeginning, PosAfterText, PosOther, PosAfterMixed(1)}
  \cup {PosAfter(n) : n \in (-1)..(MaxDataRows + 2)}

InsertArgs(batch, pos, rules, calc, preserve) ==
  [file_path |-> "book.xlsx", row_data |-> batch, sheet_name |-> NoSheet,
   insert_position |-> pos, validation_rules |-> rules,
   preserve_formatting |-> preserve, calculate_formulas |-> calc,
   batch_size |-> 100, save_as |-> ""]

InsertCalls ==
  {InsertArgs(b, p, <<>>, c, TRUE) : b \in Batches, p \in Positions, c \in BOOLEAN}
  \cup {InsertArgs(b, p, r, TRUE, TRUE) :
          b \in Batches, p \in {PosEnd, PosBeginning}, r \in RuleSets}
  \cup {InsertArgs(b, PosEnd, r, TRUE, TRUE) :
          b \in {<<RowBlank, RowBadAge>>, <<RowGood, RowBoolAge>>, <<RowGood, RowListAge>>,
                 <<RowBlank, RowGood>>},
          r \in RuleSets \cup {RulesStrict}}
  \cup {InsertArgs(b, p, <<>>, TRUE, FALSE) :
          b \in {<<RowGood>>, <<RowGood, RowFormula>>}, p \in Positions}
  \cup {[InsertArgs(b, PosEnd, <<>>, TRUE, TRUE)
           EXCEPT !.file_path = f, !.batch_size = n, !.sheet_name = sn] :
          b \in {<<RowGood>>, <<RowGood, RowFormula>>},
          f \in {"book.xlsx", "gone.xlsx", "notes.txt", "legacy.xls"},
          n \in {0, 1, 500, 501}, sn \in {NoSheet, "Data", "Nope"}}
  \cup {[InsertArgs(<<RowGood>>, p, <<>>, TRUE, TRUE) EXCEPT !.save_as = "copy.xlsx"] :
          p \in {PosEnd, PosOther}}

ReadArgs ==
  [sheet_name : {NoSheet, "Data", "Nope"},
   range : {<<0, EndRow(20)>>, <<0, NoEndRow>>, <<1, EndRow(20)>>, <<0 - 1, EndRow(20)>>,
            <<2, EndRow(2)>>, <<0, EndRow(101)>>}]

DeleteCalls ==
  [file_path : {"book.xlsx", "gone.xlsx", "notes.txt", "legacy.xls"},
   row_number : 0..(MaxDataRows + 2),
   sheet_name : {NoSheet, "Data", "Nope"}]

CellArgs(r, c, text, preserve) ==
  [file_path |-> "book.xlsx", row_number |-> r, column_number |-> c,
   text_content |-> text, sheet_name |-> NoSheet, preserve_formatting |-> preserve]

Texts == {Str(<<"x">>), Str(<<" ">>)}
BadTexts ==
  {Str(<<"=", "A", "1">>), Str(<<" ", "=", "A", "1">>), Num(7),
   LongStr(<<"x">>, MaxTextLength), LongStr(<<"=">>, MaxTextLength)}

CellCalls ==
  {CellArgs(r, c, t, pf) :
     r \in 1..(MaxDataRows + 2), c \in {1, 2}, t \in Texts, pf \in BOOLEAN}
  \cup {CellArgs(r, c, t, TRUE) :
          r \in {0, 1, MaxExcelRow, MaxExcelRow + 1},
          c \in {0, 1, MaxExcelColumn, MaxExcelColumn + 1},
          t \in {Str(<<"x">>), Str(<<"=", "A", "1">>)}}
  \cup {[CellArgs(2, 1, t, TRUE) EXCEPT !.file_path = f, !.sheet_name = sn] :
          t \in BadTexts \cup {Str(<<"x">>)},
          f \in {"book.xlsx", "gone.xlsx", "notes.txt", "legacy.xls"},
          sn \in {NoSheet, "Nope"}}

(***************************************************************************)
(* The state machine.  A call is made on the files as they are, and its    *)
(* arguments, the files before it and its result are kept in last.  After  *)
(* a call that succeeded the same tool may be called once more on the same *)
(* file (prev then holds the first call); the model follows no longer      *)
(* sequences.                                                              *)
(***************************************************************************)
NoCall == [op |-> "none", args |-> NoData, pre |-> [p \in {} |-> NoFile],
           res |-> [success |-> TRUE, error |-> "none", data |-> NoData],
           loads |-> 0, saves |-> 0, trace |-> NoTrace, prev |-> NoData]

Called(op, args, out, prev) ==
  [op |-> op, args |-> args, pre |-> disk, res |-> out.res, loads |-> out.loads,
   saves |-> out.saves, trace |-> out.trace, prev |-> prev]

NoProbe == [formula |-> <<>>, current_row |-> 0, original_max_row |-> 0,
            adjusted |-> <<>>, done |-> FALSE]

Init ==
  /\ disk \in InitialDisks
  /\ last = NoCall
  /\ probe = NoProbe

InsertRows ==
  /\ last.op = "none"
  /\ \E a \in InsertCalls :
       LET out == insert_excel_row(disk, a)
       IN disk' = out.disk /\ last' = Called("insert", a, out, NoData)
  /\ UNCHANGED probe

DeleteRow ==
  /\ last.op = "none"
  /\ \E a \in DeleteCalls :
       LET out == delete_excel_row(disk, a.file_path, a.row_number, a.sheet_name)
       IN disk' = out.disk /\ last' = Called("delete", a, out, NoData)
  /\ UNCHANGED probe

SetCellText ==
  /\ last.op = "none"
  /\ \E a \in CellCalls :
       LET out == insert_cell_text(disk, a)
       IN disk' = out.disk /\ last' = Called("set", a, out, NoData)
  /\ UNCHANGED probe

\* a second delete_excel_row on the same file and sheet
DeleteRowAgain ==
  /\ last.op = "delete" /\ last.res.success /\ last.prev = NoData
  /\ \E a \in DeleteCalls :
       /\ a.file_path = last.args.file_path /\ a.sheet_name = last.args.sheet_name
       /\ LET out == delete_excel_row(disk, a.file_path, a.row_number, a.sheet_name)
          IN disk' = out.disk
             /\ last' = Called("delete", a, out, [last EXCEPT !.prev = NoData])
  /\ UNCHANGED probe

\* a second insert_cell_text with the arguments of the first
SetCellTextAgain ==
  /\ last.op = "set" /\ last.res.success /\ last.prev = NoData
  /\ LET out == insert_cell_text(disk, last.args)
     IN disk' = out.disk
        /\ last' = Called("set", last.args, out, [last EXCEPT !.prev = NoData])
  /\ UNCHANGED probe

\* read_excel_file on the file a successful insert_excel_row saved
ReadBack ==
  /\ last.op = "insert" /\ last.res.success /\ last.prev = NoData
  /\ \E a \in ReadArgs :
       LET args == [file_path |-> last.res.data.output_file, sheet_name |-> a.sheet_name,
                    start_row |-> a.range[1], end_row |-> a.range[2]]
           out == read_excel_file(disk, args.file_path, args.sheet_name,
                                  args.start_row, args.end_row)
       IN disk' = out.disk
          /\ last' = Called("read", args, out, [last EXCEPT !.prev = NoData])
  /\ UNCHANGED probe

Next ==
  \/ InsertRows \/ DeleteRow \/ SetCellText
  \/ DeleteRowAgain \/ SetCellTextAgain \/ ReadBack

Spec == Init /\ [][Next]_vars

(***************************************************************************)
(* The formula rewriter on its own: _adjust_formula_references applied to  *)
(* a formula text, a target row and a max_row drawn from bounded sets.     *)
(***************************************************************************)
ProbeAlphabet == {"A", "B", "0", "2", "$"}
ProbeBodies == UNION {[1..n -> ProbeAlphabet] : n \in 0..MaxFormulaLen}

InitRewrite ==
  /\ disk = DiskWith(SheetOf(<<HeaderRow>>))
  /\ last = NoCall
  /\ probe \in {[formula |-> <<"=">> \o body, current_row |-> t, original_max_row |-> m,
                  adjusted |-> <<>>, done |-> FALSE] :
                   body \in ProbeBodies, t \in 1..(MaxProbeRow + 2), m \in 1..MaxProbeRow}

AdjustFormula ==
  /\ ~probe.done
  /\ probe' = [probe EXCEPT
                 !.adjusted = _adjust_formula_references(probe.formula, probe.current_row,
                                                         probe.original_max_row),
                 !.done = TRUE]
  /\ UNCHANGED <<disk, last>>

NextRewrite == AdjustFormula

SpecRewrite == InitRewrite /\ [][NextRewrite]_vars

(***************************************************************************)
(* What the claims speak of: the worksheet the last call worked on, before *)
(* the call (as loaded) and after it (as saved).                           *)
(***************************************************************************)
HasTarget ==
  /\ last.op # "none"
  /\ Loadable(last.pre, last.args.file_path)
  /\ ResolveSheet(last.pre[last.args.file_path], last.args.sheet_name).found

TargetIdx == ResolveSheet(last.pre[last.args.file_path], last.args.sheet_name).idx
PreSheet == last.pre[last.args.file_path].sheets[TargetIdx]
OutPath ==
  IF last.op = "insert" /\ last.res.success THEN last.res.data.output_file
  ELSE last.args.file_path
PostSheet == disk[OutPath].sheets[TargetIdx]

InsertOk == last.op = "insert" /\ last.res.success

\* the values of row r over the columns 1..n
ValuesOfRow(ws, r, n) == [c \in 1..n |-> ValueAt(ws, r, c)]

(***************************************************************************)
(* C1 (as stated): every successful InsertRows returns final_row_count =   *)
(* (max_row before the call - 1) + inserted_rows - empty_rows_removed.     *)
(***************************************************************************)
C1_RowCountFromPreviousMaxRow ==
  InsertOk =>
    last.res.data.final_row_count =
      (max_row(PreSheet) - 1) + last.res.data.inserted_rows
        - last.res.data.empty_rows_removed

(***************************************************************************)
(* C1 (amended): every successful InsertRows returns final_row_count =     *)
(* (E - 1) + inserted_rows - empty_rows_removed, where E is the larger of  *)
(* max_row before the call and the target row - 1: the rows between the    *)
(* old last row and a target beyond it count as rows of the sheet (and are *)
(* removed as empty ones).  For a target row <= max_row + 1 this is the    *)
(* equation as stated.                                                     *)
(***************************************************************************)
C1_RowCountFromExtent ==
  InsertOk =>
    last.res.data.final_row_count =
      (IMax(max_row(PreSheet), last.res.data.actual_insert_row - 1) - 1)
        + last.res.data.inserted_rows - last.res.data.empty_rows_removed

C1_Witness ==
  /\ InsertOk
  /\ last.res.data.inserted_rows = 2
  /\ last.res.data.empty_rows_removed >= 2
  /\ last.res.data.actual_insert_row > max_row(PreSheet) + 1

(***************************************************************************)
(* C2: after any InsertRows or DeleteRow call, successful or not, the      *)
(* cells of row 1 of the target sheet hold the values they held before the *)
(* call.                                                                   *)
(***************************************************************************)
C2_HeaderRowUnaltered ==
  (last.op \in {"insert", "delete"} /\ HasTarget) =>
    \A c \in 1..max_column(PreSheet) : ValueAt(PostSheet, 1, c) = ValueAt(PreSheet, 1, c)

(***************************************************************************)
(* C3 (as stated): DeleteRow with row_number < 2 fails with the header     *)
(* protection error whatever the other arguments are, and neither deletes  *)
(* nor saves.                                                              *)
(***************************************************************************)
C3_HeaderErrorWhateverTheArguments ==
  (last.op = "delete" /\ last.args.row_number < 2) =>
    /\ ~last.res.success
    /\ last.res.error = "row_below_2"
    /\ last.saves = 0
    /\ disk = last.pre

(***************************************************************************)
(* C3 (amended): DeleteRow with row_number < 2 always fails, without       *)
(* loading, deleting or saving; the error is the header protection error   *)
(* when the path exists and has a supported extension, and the missing     *)
(* file or unsupported format error otherwise (those checks come first).   *)
(***************************************************************************)
C3_HeaderErrorAfterPathChecks ==
  (last.op = "delete" /\ last.args.row_number < 2) =>
    /\ ~last.res.success
    /\ last.loads = 0 /\ last.saves = 0
    /\ disk = last.pre
    /\ last.res.error =
         (IF ~Exists(last.pre, last.args.file_path) THEN "file_not_exists"
          ELSE IF Ext(last.args.file_path) \notin {".xlsx", ".xls"} THEN "unsupported_format"
          ELSE "row_below_2")

C3_Witness ==
  /\ last.op = "delete" /\ last.args.row_number = 1
  /\ HasTarget /\ max_row(PreSheet) >= 2
  /\ last.res.error = "row_below_2"

(***************************************************************************)
(* C4: on a sheet with a header and exactly one data row DeleteRow(2)      *)
(* succeeds and leaves no data row, and a DeleteRow with row_number >= 2   *)
(* that follows fails with the "no data rows" error.                       *)
(***************************************************************************)
C4_SecondDeleteReportsNoDataRows ==
  (/\ last.op = "delete" /\ last.prev # NoData
   /\ last.prev.args.row_number = 2
   /\ max_row(last.prev.pre[last.prev.args.file_path].sheets[TargetIdx]) = 2
   /\ last.args.row_number >= 2) =>
    /\ last.prev.res.success
    /\ last.prev.res.data.data_rows_count = 0
    /\ max_row(PreSheet) = 1
    /\ ~last.res.success
    /\ last.res.error = "no_data_rows"

(***************************************************************************)
(* C5: validation is all-or-nothing per row.  In a successful InsertRows   *)
(* the rows written are exactly the input rows without a reported error,   *)
(* in input order, each with every header column written (its value, null *)
(* for a header the mapping lacks); every other row of the sheet in memory *)
(* is a row the sheet had; and every row of the saved sheet is one of      *)
(* those rows.  A failed call leaves the files as they were.               *)
(***************************************************************************)
\* the input rows (indices) the validation report holds no error for
RECURSIVE PassedFrom(_, _)
PassedFrom(i, n) ==
  IF i > n THEN <<>>
  ELSE (IF \E j \in 1..Len(last.res.data.validation_report.errors) :
             last.res.data.validation_report.errors[j].row = i
        THEN <<>> ELSE <<i>>) \o PassedFrom(i + 1, n)

PassedRows == PassedFrom(1, Len(last.args.row_data))

\* what a header column of an inserted row must hold
WrittenAsGiven(cell_value, row, header) ==
  IF header \notin DOMAIN row THEN cell_value = Null
  ELSE IF last.args.calculate_formulas /\ IsStr(row[header]) /\ StartsWithEq(row[header])
  THEN IsStr(cell_value) /\ StartsWithEq(cell_value)
  ELSE cell_value = row[header]

C5_AllOrNothingPerRow ==
  /\ (last.op = "insert" /\ ~last.res.success) => disk = last.pre
  /\ InsertOk =>
       LET W == last.trace.written
           first == last.res.data.actual_insert_row
           k == Len(PassedRows)
           headers == Headers(PreSheet)
           n == Len(headers)
           Src(r) == IF r < first THEN r ELSE r - k
       IN /\ last.res.data.inserted_rows = k
          /\ \A j \in 1..k : \A c \in 1..n :
               WrittenAsGiven(ValueAt(W, first + j - 1, c),
                              last.args.row_data[PassedRows[j]], headers[c])
          /\ \A r \in 1..max_row(W) :
               r \in first..(first + k - 1)
               \/ ValuesOfRow(W, r, n) = ValuesOfRow(PreSheet, Src(r), n)
          /\ \A r \in 1..max_row(PostSheet) : \E r2 \in 1..max_row(W) :
               ValuesOfRow(PostSheet, r, n) = ValuesOfRow(W, r2, n)

C5_Witness ==
  /\ InsertOk
  /\ last.res.data.validation_report.failed = 1
  /\ last.res.data.inserted_rows = 1
  /\ last.args.insert_position = PosBeginning
  /\ ValueAt(PostSheet, 2, 1) = Str(<<"x">>) /\ ValueAt(PostSheet, 2, 2) = Num(7)

(***************************************************************************)
(* C6: the rewriter leaves every reference whose row is <= max_row as it   *)
(* is and replaces the row r of every reference with r > max_row by        *)
(* r + (target row - max_row - 1); column letters, the text between the    *)
(* references and their order are kept.  A reference is a longest run of   *)
(* capital letters followed by a longest run of digits.                    *)
(***************************************************************************)
\* the places where a reference of s starts
RefStarts(s) ==
  {i \in 1..Len(s) :
     /\ s[i] \in UpperSet
     /\ (i = 1 \/ s[i - 1] \notin UpperSet)
     /\ \E j \in (i + 1)..Len(s) :
          s[j] \in DigitSet /\ \A x \in i..(j - 1) : s[x] \in UpperSet}

\* where the digits of the reference starting at i start, and where they end
RefDigits(s, i) ==
  CHOOSE j \in (i + 1)..Len(s) : s[j] \in DigitSet /\ \A x \in i..(j - 1) : s[x] \in UpperSet
RefEnd(s, j) ==
  CHOOSE k \in (j + 1)..(Len(s) + 1) :
    (\A x \in j..(k - 1) : s[x] \in DigitSet) /\ (k > Len(s) \/ s[k] \notin DigitSet)

\* s with its references rewritten, the last one first
RECURSIVE Rewritten(_, _, _)
Rewritten(s, target_row, top) ==
  IF RefStarts(s) = {} THEN s
  ELSE LET i == SetMax(RefStarts(s))
           j == RefDigits(s, i)
           k == RefEnd(s, j)
           r == ParseNat(SubSeq(s, j, k - 1))
       IN Rewritten(SubSeq(s, 1, i - 1), target_row, top)
          \o SubSeq(s, i, j - 1)
          \o (IF r > top THEN NatToChars(r + (target_row - top - 1)) ELSE SubSeq(s, j, k - 1))
          \o SubSeq(s, k, Len(s))

C6_RewriteShiftsRowsPastMaxRow ==
  probe.done =>
    probe.adjusted = Rewritten(probe.formula, probe.current_row, probe.original_max_row)

C6_Witness ==
  /\ probe.done
  /\ probe.formula = <<"=", "A", "0", "B", "2">>
  /\ probe.current_row = 3 /\ probe.original_max_row = 1
  /\ probe.adjusted = <<"=", "A", "0", "B", "3">>

(***************************************************************************)
(* C7: every rewrite of a batch uses the max_row the sheet had before the  *)
(* batch as its threshold.                                                 *)
(***************************************************************************)
C7_ThresholdIsMaxRowBeforeBatch ==
  InsertOk =>
    \A i \in 1..Len(last.trace.rewrites) :
      last.trace.rewrites[i].threshold = max_row(PreSheet)

(***************************************************************************)
(* C8: SetCellText is idempotent.  A second call with the arguments of a   *)
(* successful first call succeeds and leaves the cell with the value and   *)
(* the alignment the first call left; the alignment is left both times.    *)
(***************************************************************************)
C8_SetCellTextIdempotent ==
  (last.op = "set" /\ last.prev # NoData) =>
    LET r == last.args.row_number
        c == last.args.column_number
        first == CellAt(PreSheet, r, c)
        second == CellAt(PostSheet, r, c)
    IN /\ last.args = last.prev.args
       /\ last.res.success
       /\ second.value = first.value
       /\ first.value = last.args.text_content
       /\ second.alignment = first.alignment
       /\ first.alignment.horizontal = "left"
       /\ second.alignment.horizontal = "left"

C8_Witness ==
  /\ last.op = "set" /\ last.prev # NoData /\ last.res.success
  /\ last.args.preserve_formatting
  /\ LET before == CellAt(last.prev.pre[last.args.file_path].sheets[TargetIdx],
                          last.args.row_number, last.args.column_number)
     IN /\ before.alignment = RightTop
        /\ before.value # last.args.text_content
  /\ CellAt(PostSheet, last.args.row_number, last.args.column_number).alignment = LeftCenter

(***************************************************************************)
(* C9: SetCellText with a text beginning with '=' fails, with the formula  *)
(* error when the arguments checked before the text are in order, and the  *)
(* file is neither loaded nor saved nor changed.                           *)
(***************************************************************************)
C9_FormulaTextRefused ==
  (/\ last.op = "set"
   /\ IsStr(last.args.text_content)
   /\ StartsWithEq(last.args.text_content)) =>
    /\ ~last.res.success
    /\ last.loads = 0 /\ last.saves = 0
    /\ disk = last.pre
    /\ (/\ Exists(last.pre, last.args.file_path)
        /\ Ext(last.args.file_path) \in {".xlsx", ".xls"}
        /\ last.args.row_number \in 1..MaxExcelRow
        /\ last.args.column_number \in 1..MaxExcelColumn)
         => last.res.error = "formula_not_allowed"

C9_Witness ==
  /\ last.op = "set"
  /\ last.args.text_content = Str(<<"=", "A", "1">>)
  /\ HasTarget /\ max_row(PreSheet) >= 2
  /\ last.res.error = "formula_not_allowed"
  /\ disk = last.pre

(***************************************************************************)
(* C10: a call that returns success = false has not changed any file; a    *)
(* call saves at most once, and no failure is returned after a save.       *)
(***************************************************************************)
C10_FailureLeavesFilesAlone ==
  last.op # "none" =>
    /\ last.saves <= 1
    /\ ~last.res.success => (last.saves = 0 /\ disk = last.pre)
    /\ last.res.success => last.saves = (IF last.op = "read" THEN 0 ELSE 1)

C10_Witness ==
  /\ last.op = "insert" /\ ~last.res.success
  /\ last.res.error = "no_valid_rows"
  /\ last.loads = 1 /\ last.saves = 0
  /\ disk = last.pre

(***************************************************************************)
(* Reading back: a successful read, from row 0 and with no sheet name, of  *)
(* the file that an InsertRows of one row at 'end' with no sheet name has  *)
(* just saved.                                                             *)
(***************************************************************************)
ReadAfterEndInsert ==
  /\ last.op = "read" /\ last.res.success
  /\ last.args.sheet_name = NoSheet /\ last.args.start_row = 0
  /\ last.prev.args.insert_position = PosEnd
  /\ last.prev.args.sheet_name = NoSheet
  /\ Len(last.prev.args.row_data) = 1

InsertedRow == last.prev.args.row_data[1]
InsertBook == last.prev.pre[last.prev.args.file_path]

\* the headers of the sheet the row went to that the mapping has
InsertedHeaders ==
  LET headers == Headers(InsertBook.sheets[ResolveSheet(InsertBook, NoSheet).idx])
  IN {h \in DOMAIN InsertedRow : \E c \in 1..Len(headers) : headers[c] = h}

\* the inserted row holds a value that is not blank, so it is not removed as
\* an empty row: it is the last row of its sheet
InsertedRowKept == \E h \in InsertedHeaders : ~IsBlank(InsertedRow[h])

\* the value read for header h in the record of the sheet's last row
ReadBackValue(h) ==
  LET data == last.res.data
      i == last.prev.res.data.final_row_count
      cs == {c \in 1..Len(data.columns) : data.columns[c] = Str(h)}
  IN IF cs = {} \/ i > Len(data.records) THEN Null
     ELSE data.records[i][CHOOSE c \in cs : TRUE]

\* equal, a blank or null input being read as null
SameUpToNull(given, read) == read = given \/ (IsBlank(given) /\ read = Null)

C12_NoSheetNameMeansFirstSheet ==
  /\ (last.op = "read" /\ last.res.success /\ last.args.sheet_name = NoSheet) =>
       last.res.data.current_sheet = last.res.data.available_sheets[FirstSheet]
  /\ (/\ last.op \in {"insert", "delete", "set"}
      /\ last.res.success
      /\ last.args.sheet_name = NoSheet) =>
       \A i \in 1..Len(disk[OutPath].sheets) :
         i # FirstSheet => disk[OutPath].sheets[i] = last.pre[last.args.file_path].sheets[i]

(***************************************************************************)
(* C13: the position resolver maps 'end' to max_row + 1, 'beginning' to 2  *)
(* and 'after_row_<N>' to N + 1 when N is an integer; 'after_row_' with a  *)
(* suffix that is no integer, and every other text, gives the position     *)
(* error, and then no row is inserted.                                     *)
(***************************************************************************)
\* the text after "after_row_" is an integer: it is one part, and an integer
SuffixIsInteger(position) == Len(position.segs) = 1 /\ position.segs[1].int

PositionIsValid(position) ==
  position.kind \in {"end", "beginning"}
  \/ (position.kind = "after_row" /\ SuffixIsInteger(position))

PositionRow(position, top) ==
  CASE position.kind = "end" -> top + 1
    [] position.kind = "beginning" -> 2
    [] OTHER -> position.segs[1].n + 1

PositionErrors == {"invalid_position_format", "unsupported_position"}

C13_PositionResolvedAsSpecified ==
  last.op = "insert" =>
    /\ last.res.success =>
         /\ PositionIsValid(last.args.insert_position)
         /\ last.res.data.actual_insert_row =
              PositionRow(last.args.insert_position, max_row(PreSheet))
    /\ (~last.res.success /\ last.res.error \in PositionErrors) =>
         (~PositionIsValid(last.args.insert_position) /\ disk = last.pre)

(***************************************************************************)
(* C14: row 1 is never the target of InsertRows: for every position the    *)
(* resolver accepts the target row is >= 2, so that no gap row and no      *)
(* inserted value lands in row 1.                                          *)
(***************************************************************************)
C14_TargetRowBelowHeader ==
  InsertOk =>
    /\ last.res.data.actual_insert_row >= 2
    /\ \A c \in 1..max_column(PreSheet) :
         CellAt(last.trace.written, 1, c) = CellAt(PreSheet, 1, c)

(***************************************************************************)
(* C15: when no row of the batch passes validation InsertRows fails with   *)
(* the "no valid rows" error, its data is the validation report (failed =  *)
(* the number of rows with errors, passed = 0) and nothing is written.     *)
(***************************************************************************)
\* the call gets as far as validating its rows
ReachesValidation ==
  /\ last.op = "insert" /\ HasTarget
  /\ last.args.batch_size \in 1..500
  /\ Len(last.args.row_data) <= last.args.batch_size
  /\ DOMAIN PreSheet # {}

\* the rows (indices) of the batch with an error under the rules of the call
RowsWithErrors ==
  {i \in 1..Len(last.args.row_data) :
     last.args.validation_rules # <<>>
     /\ RowErrors(last.args.row_data[i], last.args.validation_rules) # <<>>}

C15_NoValidRowsFailsWithReport ==
  /\ (ReachesValidation /\ Cardinality(RowsWithErrors) = Len(last.args.row_data)) =>
       /\ ~last.res.success
       /\ last.res.error = "no_valid_rows"
       /\ last.res.data.failed = Len(last.args.row_data)
       /\ last.res.data.passed = 0
       /\ {last.res.data.errors[j].row : j \in 1..Len(last.res.data.errors)} = RowsWithErrors
       /\ last.saves = 0
       /\ disk = last.pre
  /\ (last.op = "insert" /\ last.res.error = "no_valid_rows") =>
       Cardinality(RowsWithErrors) = Len(last.args.row_data)

C15_Witness ==
  /\ last.op = "insert"
  /\ last.args.row_data = <<RowBadAge>>
  /\ last.args.validation_rules = RulesNumber
  /\ last.res.error = "no_valid_rows"
  /\ last.res.data.failed = 1
  /\ last.loads = 1 /\ disk = last.pre

(***************************************************************************)
(* C16: InsertRows checks batch_size before anything else: batch_size >    *)
(* 500 or <= 0 fails with the batch size error whatever the file and the   *)
(* rows are; a batch of more rows than batch_size fails before the         *)
(* workbook is loaded; and a successful InsertRows inserts between 1 and   *)
(* 500 rows.                                                               *)
(***************************************************************************)
C16_BatchSizeCheckedFirst ==
  last.op = "insert" =>
    /\ last.args.batch_size \notin 1..500 =>
         /\ ~last.res.success
         /\ last.res.error = (IF last.args.batch_size > 500 THEN "batch_size_over_500"
                              ELSE "batch_size_not_positive")
         /\ last.loads = 0 /\ disk = last.pre
    /\ Len(last.args.row_data) > last.args.batch_size =>
         /\ ~last.res.success
         /\ last.loads = 0 /\ last.saves = 0 /\ disk = last.pre
         /\ (/\ last.args.batch_size \in 1..500
             /\ Exists(last.pre, last.args.file_path)
             /\ Ext(last.args.file_path) \in {".xlsx", ".xls"})
              => last.res.error = "batch_limit_exceeded"
    /\ last.res.success =>
         /\ last.res.data.inserted_rows \in 1..500
         /\ last.res.data.inserted_rows <= last.args.batch_size

C16_Witness ==
  /\ last.op = "insert"
  /\ last.args.batch_size = 501
  /\ last.args.file_path = "gone.xlsx"
  /\ last.res.error = "batch_size_over_500"

(***************************************************************************)
(* C17: every cell InsertRows writes (every header column of every         *)
(* inserted row) ends with alignment horizontal left, vertical center, no  *)
(* wrapping, with and without preserve_formatting and whatever the         *)
(* alignment of the reference row is.                                      *)
(***************************************************************************)
C17_WrittenCellsLeftAligned ==
  InsertOk =>
    LET first == last.res.data.actual_insert_row
        k == last.res.data.inserted_rows
        n == Len(Headers(PreSheet))
    IN /\ \A r \in first..(first + k - 1) : \A c \in 1..n :
            /\ <<r, c>> \in DOMAIN last.trace.written
            /\ last.trace.written[<<r, c>>].alignment = LeftCenter
       /\ last.res.data.empty_rows_detected = 0 =>
            \A r \in first..(first + k - 1) : \A c \in 1..n :
              CellAt(PostSheet, r, c).alignment = LeftCenter

C17_Witness ==
  /\ InsertOk
  /\ last.args.preserve_formatting
  /\ last.args.insert_position = PosEnd
  /\ max_row(PreSheet) = 2
  /\ CellAt(PreSheet, 2, 1).alignment = RightTop
  /\ CellAt(PostSheet, 3, 1).font = "bold"
  /\ CellAt(PostSheet, 3, 1).alignment = LeftCenter

(***************************************************************************)
(* C18: every operation returns a record {success, error, data}: with      *)
(* success = true error is null and data is not; with success = false      *)
(* error is a message.  This holds for every call, those included that     *)
(* fail unexpectedly inside validation or in the workbook library.         *)
(***************************************************************************)
C18_ResultRecord ==
  last.op # "none" =>
    /\ DOMAIN last.res = {"success", "error", "data"}
    /\ last.res.success \in BOOLEAN
    /\ last.res.success => (last.res.error = "none" /\ last.res.data # NoData)
    /\ ~last.res.success => last.res.error # "none"

C18_Witness ==
  /\ last.op = "insert"
  /\ last.args.file_path = "legacy.xls"
  /\ ~last.res.success
  /\ last.res.error = "unknown"
  /\ last.res.data = NoData

(***************************************************************************)
(* C19: when the position is not 'end' and k rows pass validation,         *)
(* InsertRows opens a gap of exactly k blank rows at the target row before *)
(* it writes: every row the sheet had at an index r >= target is found at  *)
(* r + k with its values, every row above the target stays where it was,   *)
(* and no value the sheet had is overwritten by the inserted data.         *)
(***************************************************************************)
C19_GapOpenedBeforeWriting ==
  (InsertOk /\ last.args.insert_position # PosEnd) =>
    LET W == last.trace.written
        target == last.res.data.actual_insert_row
        k == last.res.data.inserted_rows
        n == max_column(PreSheet)
    IN /\ \A r \in 1..max_row(PreSheet) :
            ValuesOfRow(W, IF r < target THEN r ELSE r + k, n) = ValuesOfRow(PreSheet, r, n)
       /\ max_row(W) = IMax(max_row(PreSheet), target - 1) + k

C19_Witness ==
  /\ InsertOk
  /\ last.args.insert_position = PosBeginning
  /\ last.res.data.inserted_rows = 2
  /\ max_row(PreSheet) = 3
  /\ ValuesOfRow(last.trace.written, 2, 2) = <<Str(<<"x">>), Num(7)>>
  /\ ValuesOfRow(last.trace.written, 4, 2) = ValuesOfRow(PreSheet, 2, 2)
  /\ ValuesOfRow(last.trace.written, 5, 2) = ValuesOfRow(PreSheet, 3, 2)

(***************************************************************************)
(* C20: the empty-row pass of InsertRows deletes exactly the rows of       *)
(* 2..max_row whose cells are all null or blank after trimming: the rows   *)
(* that are not blank survive with their values and in their order, row 1  *)
(* is never deleted, and empty_rows_detected = empty_rows_removed.         *)
(***************************************************************************)
\* row 1 and the rows from r on that hold a value that is not blank
RECURSIVE SurvivorsFrom(_, _)
SurvivorsFrom(ws, r) ==
  IF r > max_row(ws) THEN <<>>
  ELSE (IF r = 1 \/ \E c \in 1..max_column(ws) : ~IsBlank(ValueAt(ws, r, c))
        THEN <<r>> ELSE <<>>) \o SurvivorsFrom(ws, r + 1)

C20_ReconcilerRemovesExactlyBlankRows ==
  InsertOk =>
    LET W == last.trace.written
        n == max_column(W)
        kept == SurvivorsFrom(W, 1)
    IN /\ last.res.data.empty_rows_detected = last.res.data.empty_rows_removed
       /\ last.res.data.empty_rows_removed = max_row(W) - Len(kept)
       /\ last.res.data.final_row_count = Len(kept) - 1
       /\ \A i \in 1..Len(kept) : ValuesOfRow(PostSheet, i, n) = ValuesOfRow(W, kept[i], n)
       /\ max_row(PostSheet) <= Len(kept)

C20_Witness ==
  /\ InsertOk
  /\ last.res.data.empty_rows_removed = 2
  /\ last.res.data.final_row_count = 2
  /\ last.args.insert_position = PosBeginning
  /\ max_row(last.trace.written) = 5
  /\ ValueAt(PostSheet, 2, 1) = Str(<<"x">>)
  /\ ValueAt(PostSheet, 3, 1) = Str(<<"a">>)

(***************************************************************************)
(* C21: in the validation report of an InsertRows batch with rules,        *)
(* passed + failed is the number of input rows, passed is the number of    *)
(* committed rows (inserted_rows; none when the call fails for want of a   *)
(* valid row), the committed rows stand in the sheet in their input order, *)
(* and every error carries the 1-based index of its row within the batch,  *)
(* the errors in input order.                                              *)
(***************************************************************************)
\* the call validated its rows under rules and returned a report
ReportReturned ==
  /\ last.op = "insert"
  /\ last.args.validation_rules # <<>>
  /\ (last.res.success \/ last.res.error = "no_valid_rows")

ValidationReport ==
  IF last.res.success THEN last.res.data.validation_report ELSE last.res.data

\* the rows (indices) of the batch without an error, ascending
RECURSIVE CleanRowsFrom(_)
CleanRowsFrom(i) ==
  IF i > Len(last.args.row_data) THEN <<>>
  ELSE (IF i \in RowsWithErrors THEN <<>> ELSE <<i>>) \o CleanRowsFrom(i + 1)

C21_ReportCountsAndBatchIndices ==
  ReportReturned =>
    LET report == ValidationReport
        n == Len(last.args.row_data)
        clean == CleanRowsFrom(1)
        committed == IF last.res.success THEN last.res.data.inserted_rows ELSE 0
        headers == Headers(PreSheet)
    IN /\ report.passed + report.failed = n
       /\ report.passed = committed
       /\ report.passed = Len(clean)
       /\ {report.errors[j].row : j \in 1..Len(report.errors)} = RowsWithErrors
       /\ \A j \in 1..Len(report.errors) : \A j2 \in j..Len(report.errors) :
            report.errors[j].row <= report.errors[j2].row
       /\ last.res.success =>
            \A j \in 1..Len(clean) : \A c \in 1..Len(headers) :
              WrittenAsGiven(
                ValueAt(last.trace.written, last.res.data.actual_insert_row + j - 1, c),
                last.args.row_data[clean[j]], headers[c])

\* the second row of the batch fails and is reported as row 2, while the
\* sheet rows of the batch are 4 and 5
C21_Witness ==
  /\ InsertOk
  /\ last.args.row_data = <<RowFormula, RowBlank>>
  /\ last.args.validation_rules = RulesRequired
  /\ last.res.data.actual_insert_row = 4
  /\ last.res.data.validation_report =
       [passed |-> 1, failed |-> 1,
        errors |-> <<[row |-> 2, col |-> KName, kind |-> "required"]>>]

(***************************************************************************)
(* C22: for a rule whose column is in a row, if the rule is required and   *)
(* the value is null or blank after trimming, exactly one error is         *)
(* recorded for that row and column, the "required" one (no type, bound,   *)
(* pattern or length error beside it); a rule on a column the row mapping  *)
(* lacks, required or not, gives no error for that row.                    *)
(***************************************************************************)
\* the errors (indices) the report holds for row i of the batch and a column
ErrorsOf(i, col_name) ==
  {j \in 1..Len(ValidationReport.errors) :
     ValidationReport.errors[j].row = i /\ ValidationReport.errors[j].col = col_name}

C22_RequiredBlankIsTheOnlyError ==
  ReportReturned =>
    \A i \in 1..Len(last.args.row_data) : \A r \in 1..Len(last.args.validation_rules) :
      LET row == last.args.row_data[i]
          col_name == last.args.validation_rules[r][1]
          rules == last.args.validation_rules[r][2]
      IN /\ col_name \notin DOMAIN row => ErrorsOf(i, col_name) = {}
         /\ (col_name \in DOMAIN row /\ Get(rules, "required", FALSE)
             /\ IsBlank(row[col_name])) =>
              /\ Cardinality(ErrorsOf(i, col_name)) = 1
              /\ \A j \in ErrorsOf(i, col_name) :
                   ValidationReport.errors[j].kind = "required"

\* the blank required name of the first row is its one error although the
\* rule has a type, a bound and a pattern; the second row lacks the required
\* column and is inserted
C22_Witness ==
  /\ InsertOk
  /\ last.args.row_data = <<RowBlank, RowBadAge>>
  /\ last.args.validation_rules = RulesStrict
  /\ last.res.data.validation_report =
       [passed |-> 1, failed |-> 1,
        errors |-> <<[row |-> 1, col |-> KName, kind |-> "required"]>>]
  /\ last.res.data.inserted_rows = 1

(***************************************************************************)
(* C23: a row whose value for a column of type "number" cannot be parsed   *)
(* as a number, whatever the kind of the value (text, boolean, a value     *)
(* that is no scalar), is reported as a failed row and never aborts the    *)
(* call: if another row of the batch is valid, InsertRows succeeds and     *)
(* inserts the valid rows.                                                 *)
(***************************************************************************)
\* row i holds, for a rule of type "number", a value that is filled in and
\* that float() does not turn into a number
UnparsableNumber(i) ==
  \E r \in 1..Len(last.args.validation_rules) :
    LET col_name == last.args.validation_rules[r][1]
        rules == last.args.validation_rules[r][2]
        row == last.args.row_data[i]
    IN /\ col_name \in DOMAIN row
       /\ Get(rules, "type", "string") = "number"
       /\ ~IsBlank(row[col_name])
       /\ ~ToFloat(row[col_name]).ok

\* row i has no error and no value of it makes the validation raise
ValidRow(i) ==
  /\ RowErrors(last.args.row_data[i], last.args.validation_rules) = <<>>
  /\ ~RowRaises(last.args.row_data[i], last.args.validation_rules)

C23_UnparsableNumberNeverAborts ==
  (/\ ReachesValidation
   /\ last.args.validation_rules # <<>>
   /\ \E i \in 1..Len(last.args.row_data) : UnparsableNumber(i)
   /\ \E i \in 1..Len(last.args.row_data) : ValidRow(i)) =>
    /\ last.res.success
    /\ \A i \in 1..Len(last.args.row_data) :
         UnparsableNumber(i) =>
           \E j \in 1..Len(last.res.data.validation_report.errors) :
             last.res.data.validation_report.errors[j].row = i
    /\ last.res.data.inserted_rows =
         Cardinality({i \in 1..Len(last.args.row_data) : ValidRow(i)})

(***************************************************************************)
(* C24: with preserve_formatting the reference row InsertRows copies font, *)
(* fill and border from is the row before the insertion point clamped to   *)
(* [2, max_row], max_row taken before the batch; it is always a row the    *)
(* sheet had before the call, never row 1 and never one of the rows this   *)
(* call inserts (also for "beginning" and for a sheet of the header only). *)
(***************************************************************************)
C24_ReferenceRowExistedBeforeCall ==
  (InsertOk /\ last.args.preserve_formatting) =>
    LET reference_row == last.trace.reference_row
        first == last.res.data.actual_insert_row
        k == last.res.data.inserted_rows
    IN /\ reference_row = IMax(2, IMin(max_row(PreSheet), first - 1))
       /\ reference_row >= 2
       /\ reference_row <= max_row(PreSheet)
       /\ reference_row \notin first..(first + k - 1)

(***************************************************************************)
(* C25: for each inserted row and each header column InsertRows writes the *)
(* rewritten formula text if the incoming value is a string starting with  *)
(* "=" and calculate_formulas is true, the incoming value as it is         *)
(* otherwise (also a "=" string when calculate_formulas is false), and     *)
(* null if the row mapping lacks the header.  Keys of the row mapping that *)
(* match no header change no cell.                                         *)
(***************************************************************************)
\* what the cell of the written sheet at (current_row, c) must hold for a row
\* mapping; the threshold of a rewrite is the one the call recorded for it
WrittenByRule(current_row, c, row, header) ==
  LET cell_value == ValueAt(last.trace.written, current_row, c)
  IN IF header \notin DOMAIN row THEN cell_value = Null
     ELSE IF last.args.calculate_formulas /\ IsStr(row[header]) /\ StartsWithEq(row[header])
     THEN \E w \in 1..Len(last.trace.rewrites) :
            /\ last.trace.rewrites[w].row = current_row
            /\ last.trace.rewrites[w].col = c
            /\ last.trace.rewrites[w].formula = row[header].s
            /\ cell_value =
                 Str(Rewritten(row[header].s, current_row, last.trace.rewrites[w].threshold))
     ELSE cell_value = row[header]

C25_CellsWrittenByRule ==
  InsertOk =>
    LET W == last.trace.written
        first == last.res.data.actual_insert_row
        clean == CleanRowsFrom(1)
        k == Len(clean)
        headers == Headers(PreSheet)
        n == Len(headers)
        Src(r) == IF r < first THEN r ELSE r - k
    IN /\ \A j \in 1..k : \A c \in 1..n :
            WrittenByRule(first + j - 1, c, last.args.row_data[clean[j]], headers[c])
       /\ max_column(W) = n
       /\ \A r \in 1..max_row(W) :
            r \in first..(first + k - 1)
            \/ ValuesOfRow(W, r, n) = ValuesOfRow(PreSheet, Src(r), n)

\* a formula rewritten in the first written row, and beside it a row with a
\* key (Zip) that matches no header: its Age cell is null
C25_Witness ==
  /\ InsertOk
  /\ last.args.row_data = <<RowFormula, RowBlank>>
  /\ last.args.calculate_formulas
  /\ last.args.validation_rules = <<>>
  /\ last.res.data.actual_insert_row = 3
  /\ ValueAt(last.trace.written, 3, 1) = Str(<<"=", "A", "1", "+", "B", "8">>)
  /\ ValueAt(last.trace.written, 4, 1) = Str(<<" ">>)
  /\ ValueAt(last.trace.written, 4, 2) = Null
  /\ max_column(last.trace.written) = 2

(***************************************************************************)
(* C26: a successful DeleteRow(row_number) with 2 <= row_number <= max_row *)
(* removes exactly that row: the rows before it (smaller row numbers) are  *)
(* unchanged, every row after it moves up by one with its values, the      *)
(* returned remaining_rows_count is the previous max_row - 1 and           *)
(* data_rows_count the previous number of data rows - 1; row_number >      *)
(* max_row fails with the row range error and changes nothing.             *)
(***************************************************************************)
\* a DeleteRow call that gets as far as the checks against the loaded sheet
DeleteReachesSheet ==
  /\ last.op = "delete" /\ HasTarget
  /\ Ext(last.args.file_path) \in {".xlsx", ".xls"}
  /\ last.args.row_number >= 2

C26_DeleteRemovesExactlyOneRow ==
  DeleteReachesSheet =>
    LET top == max_row(PreSheet)
        n == max_column(PreSheet)
        row_number == last.args.row_number
    IN /\ row_number <= top =>
            /\ last.res.success
            /\ \A r \in 1..(row_number - 1) :
                 ValuesOfRow(PostSheet, r, n) = ValuesOfRow(PreSheet, r, n)
            /\ \A r \in row_number..top :
                 ValuesOfRow(PostSheet, r, n) = ValuesOfRow(PreSheet, r + 1, n)
            /\ max_row(PostSheet) <= top - 1
            /\ max_column(PostSheet) <= n
            /\ last.res.data.remaining_rows_count = top - 1
            /\ last.res.data.data_rows_count = (top - 1) - 1
            /\ last.res.data.deleted_row_number = row_number
       /\ row_number > top =>
            /\ ~last.res.success
            /\ last.res.error = "row_out_of_range"
            /\ last.saves = 0
            /\ disk = last.pre

\* row 2 of three rows is deleted and the row after it, a different one, has
\* taken its place
C26_Witness ==
  /\ last.op = "delete" /\ last.res.success /\ last.prev = NoData
  /\ last.args.row_number = 2
  /\ max_row(PreSheet) = 3
  /\ ValuesOfRow(PreSheet, 2, 2) = <<Str(<<"a">>), Num(30)>>
  /\ ValuesOfRow(PostSheet, 2, 2) = <<Str(<<"=", "B", "2">>), Num(5)>>
  /\ max_row(PostSheet) = 2
  /\ last.res.data.data_rows_count = 1

(***************************************************************************)
(* C27: after every successful InsertRows the saved sheet has no fully     *)
(* blank row in 2..max_row (a row every cell of which, over the columns    *)
(* 1..max_column, is null or blank after trimming), whatever blank rows    *)
(* the sheet held before, whatever rows were inserted and whatever the     *)
(* position was.                                                           *)
(***************************************************************************)
C27_NoBlankRowIsSaved ==
  InsertOk => \A r \in 2..max_row(PostSheet) : ~RowIsEmpty(PostSheet, r)

\* the sheet had a blank row 3, a blank row and a filled one were inserted at
\* the beginning, and both blank rows are gone from the saved sheet
C27_Witness ==
  /\ InsertOk
  /\ last.args.row_data = <<RowBlank, RowGood>>
  /\ last.args.insert_position = PosBeginning
  /\ max_row(PreSheet) = 3 /\ RowIsEmpty(PreSheet, 3)
  /\ last.res.data.inserted_rows = 2
  /\ last.res.data.empty_rows_removed = 2
  /\ max_row(PostSheet) = 3

(***************************************************************************)
(* C28: in the saved sheet after a successful InsertRows the i-th          *)
(* committed row (0-based) is at sheet row actual_insert_row + i: the      *)
(* reported actual_insert_row is still the row of the first inserted row   *)
(* after the empty rows were removed.                                      *)
(***************************************************************************)
C28_CommittedRowsAtReportedRows ==
  InsertOk =>
    LET first == last.res.data.actual_insert_row
        n == max_column(last.trace.written)
    IN \A j \in 1..last.res.data.inserted_rows :
         ValuesOfRow(PostSheet, first + j - 1, n)
           = ValuesOfRow(last.trace.written, first + j - 1, n)

(***************************************************************************)
(* C29: a successful SetCellText changes only the value and the alignment  *)
(* of the addressed cell: its font, fill, border and number format are     *)
(* after the call what they were before it, for both values of             *)
(* preserve_formatting; no other cell changes, no row is inserted or       *)
(* deleted; and the returned original_value is the value the cell had      *)
(* before the call.                                                        *)
(***************************************************************************)
SetOk == last.op = "set" /\ last.res.success

C29_OnlyValueAndAlignmentChange ==
  SetOk =>
    LET r == last.args.row_number
        c == last.args.column_number
        before == CellAt(PreSheet, r, c)
        after == CellAt(PostSheet, r, c)
    IN /\ after = [before EXCEPT !.value = last.args.text_content,
                                 !.alignment = LeftCenter]
       /\ \A p \in (DOMAIN PreSheet \cup DOMAIN PostSheet) \ {<<r, c>>} :
            CellAt(PostSheet, p[1], p[2]) = CellAt(PreSheet, p[1], p[2])
       /\ last.res.data.original_value = before.value
       /\ \A i \in 1..Len(disk[last.args.file_path].sheets) :
            i # TargetIdx =>
              disk[last.args.file_path].sheets[i] = last.pre[last.args.file_path].sheets[i]

\* a bold, right-aligned formula cell is overwritten without
\* preserve_formatting: it stays bold, and the row after it stays where it was
C29_Witness ==
  /\ SetOk /\ last.prev = NoData
  /\ ~last.args.preserve_formatting
  /\ last.args.row_number = 2 /\ last.args.column_number = 1
  /\ CellAt(PreSheet, 2, 1) = StyledCell(Str(<<"=", "B", "2">>), RightTop, "bold")
  /\ CellAt(PostSheet, 2, 1) = StyledCell(Str(<<"x">>), LeftCenter, "bold")
  /\ last.res.data.original_value = Str(<<"=", "B", "2">>)
  /\ max_row(PreSheet) = 3 /\ max_row(PostSheet) = 3
  /\ CellAt(PostSheet, 3, 1) = CellAt(PreSheet, 3, 1)

=============================================================================
